---------------------------- MODULE Spec2Model ----------------------------
(***************************************************************************)
(* Feng-shui layout generation: the request handler (services/            *)
(* layout_generator.py), the room analysis (services/feng_shui/room), the  *)
(* furniture placer and its placement stages (services/feng_shui/furniture)*)
(* the scorers (placer.py, engine.py) and the kua calculator.              *)
(*                                                                         *)
(* Lengths are the code's numbers counted in twentieths: the model integer *)
(* 20 is the code's 1.0, so that 0.05 is the model's 1.  Every constant of *)
(* the code (0.2, 0.5, 1.0, 0.1, 0.3/2) and every input of the scenarios   *)
(* is a whole number of twentieths, and every division the code performs   *)
(* on them is exact for the rooms and items enumerated below.              *)
(***************************************************************************)
EXTENDS Integers, Sequences, FiniteSets, TLC

VARIABLES
    req_room,       \* the request: room_data (dimensions, orientation, elements)
    req_items,      \* the request: furniture_selections, the items dictionary
    req_goal,       \* the request: primary_life_goal, "" when there is none
    pc,             \* position of the request handler
    analysis,       \* the room_analysis shared by the three placers
    pass,           \* which of the three place_all_furniture calls runs
    acc,            \* the layout accumulator of the running place_all_furniture
    idx,            \* index of the current item in category order
    stage,          \* stage the current item is at
    layouts,        \* layouts finished so far: optimal, space_conscious, third
    response,       \* what the service's generate_layouts returned
    stage_log,      \* history of the running pass: stages that ran, per item
    occupant,       \* kua calculator: the primary occupant
    kua,            \* kua calculator: result of calculate_kua_number
    grp,            \* kua calculator: result of get_kua_group
    score_in,       \* scorers: the layout handed to them
    score_out       \* scorers: the scores computed for score_in

vars == <<req_room, req_items, req_goal, pc, analysis, pass, acc, idx, stage,
          layouts, response, stage_log, occupant, kua, grp,
          score_in, score_out>>

None == "None"
\* None where the code expects a number: "width": null in a request
Null == -1000000

-----------------------------------------------------------------------------
(* Bounds of the model *)

\* most instances of one catalog entry in a request
MaxQuantity == 2
\* most furniture instances in a request
MaxItems == 3
\* birth years 1 .. MaxYear are fed to the kua calculator
MaxYear == 40
\* most placements of a layout handed to the scorers
MaxScorePlacements == 2
\* most trade-offs of a layout handed to the scorers
MaxScoreTradeoffs == 2
HeavyCount == 12

-----------------------------------------------------------------------------
(* Constants of the program, in twentieths *)

WallThickness == 4          \* wall_thickness = 0.2
WallStep == 10              \* step_size = 0.5
WallNear == 20              \* wall_y < 1, wall_x < 1
EnergyGridStep == 10        \* min(0.5, ...)
LastResortGridStep == 20    \* min(1.0, ...)
BaguaGridStep == 10         \* min(0.5, ...)
LineThickness == 6          \* line_thickness = 0.3
NearbyGap == 2              \* 0.1 beside a bed, a sofa, a desk
DoorClearance == 20         \* 1.0 in front of a door
SmallAreaLimit == 1000000   \* width * height < 2500
EntryOffset == 20           \* entry point + 1.0 for a water feature

Min(a, b) == IF a <= b THEN a ELSE b
Max(a, b) == IF a >= b THEN a ELSE b
Abs(a) == IF a >= 0 THEN a ELSE -a

\* the elements of a sequence
Range(s) == {s[i] : i \in 1..Len(s)}

\* the sequence s without the elements failing Test(_)
RECURSIVE SelectIdx(_, _, _)
SelectIdx(s, keep, i) ==
    IF i > Len(s) THEN <<>>
    ELSE (IF i \in keep THEN <<s[i]>> ELSE <<>>) \o SelectIdx(s, keep, i + 1)

-----------------------------------------------------------------------------
(* geometry_utils.py *)

rectangles_overlap(x1, y1, w1, h1, x2, y2, w2, h2) ==
    ~(x1 + w1 <= x2 \/ x2 + w2 <= x1 \/ y1 + h1 <= y2 \/ y2 + h2 <= y1)

\* the line's bounding box, grown by half the thickness, against the rectangle
rectangle_line_intersection(rx, ry, rw, rh, lx1, ly1, lx2, ly2) ==
    LET minx == Min(lx1, lx2) - LineThickness \div 2
        maxx == Max(lx1, lx2) + LineThickness \div 2
        miny == Min(ly1, ly2) - LineThickness \div 2
        maxy == Max(ly1, ly2) + LineThickness \div 2
    IN  rectangles_overlap(rx, ry, rw, rh, minx, miny, maxx - minx, maxy - miny)

position_overlaps(x, y, width, height, placed_item) ==
    rectangles_overlap(x, y, width, height,
                       placed_item.x, placed_item.y,
                       placed_item.width, placed_item.height)

-----------------------------------------------------------------------------
(* The requests the model enumerates *)

\* a room of 51 x 66 and a room whose width is not positive
Rooms == {[width |-> 1020, length |-> 1320], [width |-> 0, length |-> 1320]}

\* a door in the west wall, centred at (1, 23.8), and a window in the north
\* wall
Door == [element_type |-> "door", x |-> 0, y |-> 376, width |-> 40, height |-> 200]
Window == [element_type |-> "window", x |-> 0, y |-> 0, width |-> 600, height |-> 8]
\* a partition wall that runs from the north wall into the room
Wall == [element_type |-> "wall", x |-> 400, y |-> 0, width |-> 10, height |-> 600]
ElementLists == {<<>>, <<Door>>, <<Door, Window>>, <<Door, Wall>>}

\* the catalog entries a request may select, in the order of the request's
\* items dictionary, which is not the order of the categories: a nightstand
\* of 4 x 4, a bed of 8 x 8, a bed whose dimensions are null, a bookcase of
\* 51 x 20, a desk of 31 x 31, a table of 50 x 50
Catalog == <<
    [id |-> "nightstand",   width |-> 80,   height |-> 80],
    [id |-> "twin_bed",     width |-> 160,  height |-> 160],
    [id |-> "sofa_bed",     width |-> Null, height |-> Null],
    [id |-> "bookcase",     width |-> 1020, height |-> 400],
    [id |-> "desk",         width |-> 620,  height |-> 620],
    [id |-> "dining_table", width |-> 1000, height |-> 1000] >>

LifeGoals == {"", "wealth"}

\* sum of a quantity vector
RECURSIVE SumTo(_, _)
SumTo(q, n) == IF n = 0 THEN 0 ELSE q[n] + SumTo(q, n - 1)

\* the items dictionary of a request: every catalog entry with a quantity
\* in 0 .. MaxQuantity, at most MaxItems instances in all
Selections ==
    {[i \in 1..Len(Catalog) |->
        [id |-> Catalog[i].id, quantity |-> q[i],
         width |-> Catalog[i].width, height |-> Catalog[i].height]] :
     q \in {v \in [1..Len(Catalog) -> 0..MaxQuantity] :
                SumTo(v, Len(Catalog)) <= MaxItems}}

-----------------------------------------------------------------------------
(* room/constraints.py *)

TrafficBuffer == 1000       \* x - 50, y - 50
TrafficGrow == 2000         \* width + 100, height + 100

add_constraint(constraint_type, x, y, width, height) ==
    [type |-> constraint_type, x |-> x, y |-> y, width |-> width, height |-> height]

\* the constraints one element contributes
ElementConstraints(e) ==
    IF e.element_type = None \/ Null \in {e.x, e.y, e.width, e.height} THEN <<>>
    ELSE IF e.element_type = "wall" THEN
        <<add_constraint("unusable_area", e.x, e.y, e.width, e.height)>>
    ELSE IF e.element_type = "door" THEN
        <<add_constraint("traffic_flow", e.x - TrafficBuffer, e.y - TrafficBuffer,
                         e.width + TrafficGrow, e.height + TrafficGrow),
          add_constraint("door_swing", e.x, e.y,
                         Max(e.width, e.height), Max(e.width, e.height))>>
    ELSE IF e.element_type = "window" THEN
        <<add_constraint("traffic_flow", e.x, e.y, e.width, e.height)>>
    ELSE IF e.element_type = "fireplace" THEN
        <<add_constraint("unusable_area", e.x, e.y, e.width, e.height),
          add_constraint("feng_shui_issue", e.x - e.width \div 2, e.y + e.height,
                         e.width * 2, e.height)>>
    ELSE IF e.element_type \in {"nofurniture", "closet", "column", "radiator"} THEN
        <<add_constraint("unusable_area", e.x, e.y, e.width, e.height)>>
    ELSE <<>>

RECURSIVE identify_constraints(_)
identify_constraints(elements) ==
    IF elements = <<>> THEN <<>>
    ELSE ElementConstraints(Head(elements)) \o identify_constraints(Tail(elements))

\* list.sort(key = (x, y)): a stable insertion sort
RECURSIVE InsertByXY(_, _)
InsertByXY(c, s) ==
    IF s = <<>> THEN <<c>>
    ELSE IF c.x < Head(s).x \/ (c.x = Head(s).x /\ c.y < Head(s).y)
         THEN <<c>> \o s
         ELSE <<Head(s)>> \o InsertByXY(c, Tail(s))

RECURSIVE SortByXY(_)
SortByXY(s) ==
    IF s = <<>> THEN <<>>
    ELSE InsertByXY(s[Len(s)], SortByXY(SubSeq(s, 1, Len(s) - 1)))

\* the constraint types of a list, in the order of their first appearance
RECURSIVE TypesInOrder(_, _)
TypesInOrder(s, seen) ==
    IF s = <<>> THEN <<>>
    ELSE IF Head(s).type \in seen THEN TypesInOrder(Tail(s), seen)
    ELSE <<Head(s).type>> \o TypesInOrder(Tail(s), seen \cup {Head(s).type})

\* one pass over a sorted group: the running box absorbs the next constraint
\* when they overlap, else it is emitted and the next constraint takes over
RECURSIVE MergeGroup(_, _)
MergeGroup(current, rest) ==
    IF rest = <<>> THEN <<current>>
    ELSE LET g == Head(rest) IN
         IF rectangles_overlap(current.x, current.y, current.width, current.height,
                               g.x, g.y, g.width, g.height)
         THEN LET x1 == Min(current.x, g.x)
                  y1 == Min(current.y, g.y)
                  x2 == Max(current.x + current.width, g.x + g.width)
                  y2 == Max(current.y + current.height, g.y + g.height)
              IN  MergeGroup([current EXCEPT !.x = x1, !.y = y1,
                                             !.width = x2 - x1, !.height = y2 - y1],
                             Tail(rest))
         ELSE <<current>> \o MergeGroup(g, Tail(rest))

RECURSIVE MergeGroups(_, _)
MergeGroups(constraints, types) ==
    IF types = <<>> THEN <<>>
    ELSE LET group == SortByXY(SelectSeq(constraints,
                                         LAMBDA c : c.type = Head(types)))
         IN  MergeGroup(Head(group), Tail(group))
             \o MergeGroups(constraints, Tail(types))

merge_overlapping_constraints(constraints) ==
    MergeGroups(constraints, TypesInOrder(constraints, {}))

-----------------------------------------------------------------------------
(* room/usable_spaces.py *)

AreaPoor == 400             \* area < 1.0
AreaFair == 800             \* area < 2.0
AreaGood == 1600            \* area < 4.0
AreaUseful == 200           \* area >= 0.5

NewSpace(x, y, width, height) ==
    [x |-> x, y |-> y, width |-> width, height |-> height,
     area |-> width * height, quality |-> "excellent"]

\* a split that hands the space back whole
WholeSpace(space, constraint) == <<space>>

\* the up to four spaces left, right, above and below the constraint
split_space_around_constraint(space, constraint) ==
    (IF constraint.x > space.x
     THEN <<NewSpace(space.x, space.y, constraint.x - space.x, space.height)>>
     ELSE <<>>)
    \o (IF constraint.x + constraint.width < space.x + space.width
        THEN <<NewSpace(constraint.x + constraint.width, space.y,
                        (space.x + space.width) - (constraint.x + constraint.width),
                        space.height)>>
        ELSE <<>>)
    \o (IF constraint.y > space.y
        THEN <<NewSpace(space.x, space.y, space.width, constraint.y - space.y)>>
        ELSE <<>>)
    \o (IF constraint.y + constraint.height < space.y + space.height
        THEN <<NewSpace(space.x, constraint.y + constraint.height, space.width,
                        (space.y + space.height) - (constraint.y + constraint.height))>>
        ELSE <<>>)

\* one unusable area applied to every space of the list
RECURSIVE SplitAll(_, _)
SplitAll(spaces, constraint) ==
    IF spaces = <<>> THEN <<>>
    ELSE LET space == Head(spaces) IN
         (IF rectangles_overlap(space.x, space.y, space.width, space.height,
                                constraint.x, constraint.y,
                                constraint.width, constraint.height)
          THEN split_space_around_constraint(space, constraint)
          ELSE <<space>>)
         \o SplitAll(Tail(spaces), constraint)

RECURSIVE RemoveUnusable(_, _)
RemoveUnusable(spaces, constraints) ==
    IF constraints = <<>> THEN spaces
    ELSE RemoveUnusable(
            IF Head(constraints).type = "unusable_area"
            THEN SplitAll(spaces, Head(constraints)) ELSE spaces,
            Tail(constraints))

Downgrade(quality) ==
    CASE quality = "excellent" -> "good"
      [] quality = "good" -> "fair"
      [] quality = "fair" -> "poor"
      [] OTHER -> quality

\* the quality after the loop over the constraints: one step down for every
\* traffic-flow constraint the space overlaps
RECURSIVE TrafficQuality(_, _, _)
TrafficQuality(space, quality, constraints) ==
    IF constraints = <<>> THEN quality
    ELSE LET c == Head(constraints) IN
         TrafficQuality(space,
            IF c.type = "traffic_flow"
               /\ rectangles_overlap(space.x, space.y, space.width, space.height,
                                     c.x, c.y, c.width, c.height)
            THEN Downgrade(quality) ELSE quality,
            Tail(constraints))

SizeQuality(area) ==
    IF area < AreaPoor THEN "poor"
    ELSE IF area < AreaFair THEN "fair"
    ELSE IF area < AreaGood THEN "good"
    ELSE "excellent"

identify_usable_spaces(room_width, room_length, constraints) ==
    LET split == RemoveUnusable(<<NewSpace(0, 0, room_width, room_length)>>,
                                constraints)
        graded == [i \in 1..Len(split) |->
                     [split[i] EXCEPT
                        !.quality = TrafficQuality(split[i],
                                       SizeQuality(split[i].area), constraints)]]
    IN  SelectSeq(graded, LAMBDA space : space.area >= AreaUseful)

-----------------------------------------------------------------------------
(* room/command_positions.py *)

WallClose == 10             \* abs(...) < 0.5
TanNum == 17633             \* tan(10 degrees) = TanNum / TanDen
TanDen == 100000

check_wall_support(x, y, walls, room_width, room_length) ==
    \/ y * 10 < room_length
    \/ y * 10 > room_length * 9
    \/ x * 10 > room_width * 9
    \/ x * 10 < room_width
    \/ \E i \in 1..Len(walls) :
          \/ Abs(x - walls[i].x) < WallClose
          \/ Abs(x - (walls[i].x + walls[i].width)) < WallClose
          \/ Abs(y - walls[i].y) < WallClose
          \/ Abs(y - (walls[i].y + walls[i].height)) < WallClose

\* abs(angle_degrees - a) < 10 for a in 0, 90, 180, 270, where angle_degrees
\* is the bearing (dx, dy) reduced to [0, 360): bearings in (350, 360) are
\* more than 10 away from each of the four
is_aligned(dx, dy) ==
    \/ dx > 0 /\ dy >= 0 /\ dy * TanDen < TanNum * dx
    \/ dy > 0 /\ Abs(dx) * TanDen < TanNum * dy
    \/ dx < 0 /\ Abs(dy) * TanDen < TanNum * (-dx)
    \/ dy < 0 /\ Abs(dx) * TanDen < TanNum * (-dy)

\* the positions one door contributes, in the order the code appends them
DoorCommandPositions(door, walls, room_width, room_length) ==
    LET cx == door.x + door.width \div 2
        cy == door.y + door.height \div 2
        dx == (room_width * 3) \div 10
        dy == (room_length * 3) \div 10
        diagonal_positions == << <<dx, dy>>, <<dx, -dy>>, <<-dx, dy>>, <<-dx, -dy>> >>
        kept == {i \in 1..4 :
                   /\ 0 <= cx + diagonal_positions[i][1]
                   /\ cx + diagonal_positions[i][1] <= room_width
                   /\ 0 <= cy + diagonal_positions[i][2]
                   /\ cy + diagonal_positions[i][2] <= room_length
                   /\ ~is_aligned(diagonal_positions[i][1], diagonal_positions[i][2])}
        made == [i \in 1..4 |->
                   LET x == cx + diagonal_positions[i][1]
                       y == cy + diagonal_positions[i][2]
                       has_wall_behind ==
                           check_wall_support(x, y, walls, room_width, room_length)
                   IN  [x |-> x, y |-> y,
                        quality |-> IF has_wall_behind THEN "excellent" ELSE "good",
                        has_wall_behind |-> has_wall_behind,
                        door_id |-> door]]
    IN  SelectIdx(made, kept, 1)

RECURSIVE DoorsCommandPositions(_, _, _, _)
DoorsCommandPositions(doors, walls, room_width, room_length) ==
    IF doors = <<>> THEN <<>>
    ELSE DoorCommandPositions(Head(doors), walls, room_width, room_length)
         \o DoorsCommandPositions(Tail(doors), walls, room_width, room_length)

identify_command_positions(elements, room_width, room_length) ==
    DoorsCommandPositions(
        SelectSeq(elements, LAMBDA e : e.element_type = "door"),
        SelectSeq(elements, LAMBDA e : e.element_type = "wall"),
        room_width, room_length)

-----------------------------------------------------------------------------
(* room/energy_analyzer.py *)

DoorsAligned == 10          \* abs(...) < 0.5
CornerNear == 10            \* corner_to_path_distance < 0.5
StagnantFar == 40           \* min_distance > 2.0
StagnantGrid == 10          \* grid_step = min(room_width, room_length) / 10
IntLimit == 46340           \* squares of larger numbers leave the integers of TLC

\* the sign of c * c - d * d * len2, computed without leaving the integers
CompareSquares(c, d, len2) ==
    LET q == c \div d
        r == c % d
    IN  IF q >= IntLimit \/ q * q > len2 THEN 1
        ELSE IF (q + 1) * (q + 1) <= len2 THEN -1
        ELSE LET v == d * d * (q * q - len2) + 2 * d * q * r + r * r
             IN  IF v > 0 THEN 1 ELSE IF v < 0 THEN -1 ELSE 0

\* the sign of point_to_line_distance(px, py, x1, y1, x2, y2) - d: the
\* projection is clamped to the segment, so the distance is to an end point
\* or, in between, the cross product over the segment's length
point_to_line_distance(px, py, x1, y1, x2, y2, d) ==
    LET line_length_sq == (x2 - x1) * (x2 - x1) + (y2 - y1) * (y2 - y1)
        dot == (px - x1) * (x2 - x1) + (py - y1) * (y2 - y1)
        ToPoint(qx, qy) ==
            LET v == (px - qx) * (px - qx) + (py - qy) * (py - qy) - d * d
            IN  IF v > 0 THEN 1 ELSE IF v < 0 THEN -1 ELSE 0
    IN  IF line_length_sq = 0 \/ dot <= 0 THEN ToPoint(x1, y1)
        ELSE IF dot >= line_length_sq THEN ToPoint(x2, y2)
        ELSE CompareSquares(Abs((px - x1) * (y2 - y1) - (py - y1) * (x2 - x1)),
                            d, line_length_sq)

EntryPoint(e) ==
    [type |-> e.element_type,
     x |-> e.x + e.width \div 2, y |-> e.y + e.height \div 2,
     strength |-> IF e.element_type = "door" THEN "strong" ELSE "moderate"]

\* the pairs of a list's indices, and the pairs of two ranges, in the order
\* two nested loops visit them
NestedPairs(n, m) ==
    [k \in 1..(n * m) |-> <<((k - 1) \div m) + 1, ((k - 1) % m) + 1>>]

\* doors that line up in x and in y at once
AlignedInBoth(entry1, entry2) ==
    /\ Abs(entry1.x - entry2.x) < DoorsAligned
    /\ Abs(entry1.y - entry2.y) < DoorsAligned

\* is_x_aligned or is_y_aligned
doors_aligned(entry1, entry2) ==
    \/ Abs(entry1.x - entry2.x) < DoorsAligned
    \/ Abs(entry1.y - entry2.y) < DoorsAligned

identify_energy_issues(entry_points, flow_paths, room_width, room_length) ==
    LET door_entry_points == SelectSeq(entry_points, LAMBDA ep : ep.type = "door")
        door_pairs == SelectSeq(
            NestedPairs(Len(door_entry_points), Len(door_entry_points)),
            LAMBDA p : /\ p[1] < p[2]
                       /\ doors_aligned(door_entry_points[p[1]],
                                        door_entry_points[p[2]]))
        door_alignment == [k \in 1..Len(door_pairs) |->
            [type |-> "door_alignment", severity |-> "high",
             x1 |-> door_entry_points[door_pairs[k][1]].x,
             y1 |-> door_entry_points[door_pairs[k][1]].y,
             x2 |-> door_entry_points[door_pairs[k][2]].x,
             y2 |-> door_entry_points[door_pairs[k][2]].y]]
        corners == << <<0, 0>>, <<room_width, 0>>,
                      <<0, room_length>>, <<room_width, room_length>> >>
        corner_pairs == SelectSeq(
            NestedPairs(Len(flow_paths), 4),
            LAMBDA p : point_to_line_distance(
                           corners[p[2]][1], corners[p[2]][2],
                           flow_paths[p[1]].start_x, flow_paths[p[1]].start_y,
                           flow_paths[p[1]].end_x, flow_paths[p[1]].end_y,
                           CornerNear) < 0)
        sharp_corner == [k \in 1..Len(corner_pairs) |->
            [type |-> "sharp_corner", severity |-> "medium",
             x |-> corners[corner_pairs[k][2]][1],
             y |-> corners[corner_pairs[k][2]][2]]]
        grid_step == Min(room_width, room_length) \div StagnantGrid
        grid == SelectSeq(
            NestedPairs(room_width \div grid_step + 1,
                              room_length \div grid_step + 1),
            LAMBDA p : /\ (p[1] - 1) * grid_step <= room_width
                       /\ (p[2] - 1) * grid_step <= room_length
                       /\ \A k \in 1..Len(flow_paths) :
                             point_to_line_distance(
                                 (p[1] - 1) * grid_step, (p[2] - 1) * grid_step,
                                 flow_paths[k].start_x, flow_paths[k].start_y,
                                 flow_paths[k].end_x, flow_paths[k].end_y,
                                 StagnantFar) > 0)
        stagnant_energy == [k \in 1..Len(grid) |->
            [type |-> "stagnant_energy", severity |-> "low",
             x |-> (grid[k][1] - 1) * grid_step,
             y |-> (grid[k][2] - 1) * grid_step]]
    IN  door_alignment \o sharp_corner \o stagnant_energy

analyze_energy_flow(elements, room_width, room_length) ==
    LET doors == SelectSeq(elements, LAMBDA e : e.element_type = "door")
        windows == SelectSeq(elements, LAMBDA e : e.element_type = "window")
        both == doors \o windows
        energy_entry_points == [i \in 1..Len(both) |-> EntryPoint(both[i])]
        flow_paths == [i \in 1..Len(both) |->
            [start_x |-> energy_entry_points[i].x,
             start_y |-> energy_entry_points[i].y,
             end_x |-> room_width \div 2, end_y |-> room_length \div 2,
             strength |-> energy_entry_points[i].strength]]
    IN  IF both = <<>>
        THEN [flow_paths |-> <<>>, energy_entry_points |-> <<>>,
              energy_issues |-> <<>>]
        ELSE [flow_paths |-> flow_paths,
              energy_entry_points |-> energy_entry_points,
              energy_issues |-> identify_energy_issues(energy_entry_points,
                                    flow_paths, room_width, room_length)]

-----------------------------------------------------------------------------
(* room/bagua_mapper.py *)

\* the area names of the 3 x 3 grid, row by row from the top of the plan
BaguaRows(compass_orientation) ==
    CASE compass_orientation = "N" ->
           <<"knowledge", "career", "helpful_people",
             "family", "center", "children",
             "wealth", "fame", "relationships">>
      [] compass_orientation = "E" ->
           <<"family", "health", "wealth",
             "knowledge", "center", "fame",
             "career", "helpful_people", "children">>
      [] compass_orientation = "S" ->
           <<"relationships", "fame", "wealth",
             "children", "center", "family",
             "helpful_people", "career", "knowledge">>
      [] compass_orientation = "W" ->
           <<"children", "helpful_people", "career",
             "fame", "center", "knowledge",
             "wealth", "health", "family">>
      [] OTHER -> <<>>

create_bagua_map(room_width, room_length, compass_orientation) ==
    LET third_width == room_width \div 3
        third_length == room_length \div 3
        rows == BaguaRows(compass_orientation)
    IN  [name \in Range(rows) |->
            LET k == CHOOSE i \in 1..Len(rows) : rows[i] = name
            IN  [x |-> third_width * ((k - 1) % 3),
                 y |-> third_length * ((k - 1) \div 3),
                 width |-> third_width, height |-> third_length]]

-----------------------------------------------------------------------------
(* room/analyzer.py *)

NoAnalysis == [dimensions |-> None]

\* RoomAnalyzer.__init__ raises ValueError for these
InvalidDimensions(data) == data.dimensions.width <= 0 \/ data.dimensions.length <= 0

\* an element without one of its geometry fields: element.get(...) is None
MissingGeometry(e) == Null \in {e.x, e.y, e.width, e.height}

\* identify_command_positions (for a door) and analyze_energy_flow (for a door
\* or a window) add and halve the fields as they come: None raises TypeError
AnalysisRaises(data) ==
    \E i \in 1..Len(data.elements) :
        /\ data.elements[i].element_type \in {"door", "window"}
        /\ MissingGeometry(data.elements[i])

analyze_room(data) ==
    LET room_width == data.dimensions.width
        room_length == data.dimensions.length
        merged ==
            merge_overlapping_constraints(identify_constraints(data.elements))
    IN  [dimensions |-> [width |-> room_width, length |-> room_length,
                         area |-> room_width * room_length],
         orientation |-> data.orientation,
         bagua_map |-> create_bagua_map(room_width, room_length, data.orientation),
         constraints |-> merged,
         usable_spaces |-> identify_usable_spaces(room_width, room_length, merged),
         command_positions |->
             identify_command_positions(data.elements, room_width, room_length),
         energy_flow |-> analyze_energy_flow(data.elements, room_width, room_length),
         elements |-> data.elements]

\* the room_data of the requests enumerated: no compass in the request, so
\* the analyzer's default orientation
RoomData == {[dimensions |-> r, orientation |-> "N", elements |-> e] :
             r \in Rooms, e \in ElementLists}

-----------------------------------------------------------------------------
(* furniture/utils.py *)

\* the words the code looks for in a lowercased furniture id, for the ids of
\* the catalog
Words(furniture_id) ==
    CASE furniture_id = "twin_bed" -> {"bed"}
      [] furniture_id = "sofa_bed" -> {"sofa", "bed"}
      [] furniture_id = "desk" -> {"desk"}
      [] furniture_id = "bookcase" -> {"bookcase"}
      [] furniture_id = "dining_table" -> {"table"}
      [] furniture_id = "nightstand" -> {"nightstand"}
      [] OTHER -> {}

get_furniture_type(furniture_id) ==
    LET w == Words(furniture_id) IN
    IF "bed" \in w THEN "bed"
    ELSE IF "desk" \in w THEN "desk"
    ELSE IF "table" \in w THEN "table"
    ELSE IF w \cap {"sofa", "chair"} # {} THEN "seating"
    ELSE IF w \cap {"shelf", "bookcase"} # {} THEN "storage"
    ELSE IF w \cap {"dresser", "chest"} # {} THEN "storage"
    ELSE IF w \cap {"wardrobe", "closet"} # {} THEN "storage"
    ELSE IF "plant" \in w THEN "decor"
    ELSE IF w \cap {"lamp", "light"} # {} THEN "lighting"
    ELSE "other"

\* one position of the list handed to filter_available_positions: inside the
\* room with the dimensions swapped when the position is rotated, and clear
\* of every placement of the layout (a layout carries no "constraints", so
\* the loop over unusable areas never runs)
PositionAvailable(pos, width, height, layout, room_width, room_length) ==
    LET actual_width == IF pos.rotation = 90 THEN height ELSE width
        actual_height == IF pos.rotation = 90 THEN width ELSE height
    IN  /\ ~(pos.x < 0 \/ pos.y < 0 \/ pos.x + actual_width > room_width
             \/ pos.y + actual_height > room_length)
        /\ \A i \in 1..Len(layout.furniture_placements) :
              ~rectangles_overlap(pos.x, pos.y, actual_width, actual_height,
                                  layout.furniture_placements[i].x,
                                  layout.furniture_placements[i].y,
                                  layout.furniture_placements[i].width,
                                  layout.furniture_placements[i].height)

\* with rotate_if_needed, an upright position that leaves the room and whose
\* quarter turn fits is appended, turned, to the list being filtered
filter_available_positions(positions, width, height, layout, room_width, room_length, rotate_if_needed) ==
    LET OutOfRoom(pos, w, h) ==
            pos.x < 0 \/ pos.y < 0 \/ pos.x + w > room_width
            \/ pos.y + h > room_length
        turned == SelectSeq(positions, LAMBDA pos :
                     /\ rotate_if_needed /\ pos.rotation = 0 /\ width # height
                     /\ OutOfRoom(pos, width, height)
                     /\ ~OutOfRoom(pos, height, width))
        appended == [i \in 1..Len(turned) |-> [turned[i] EXCEPT !.rotation = 90]]
    IN  SelectSeq(positions \o appended, LAMBDA pos :
            PositionAvailable(pos, width, height, layout, room_width, room_length))

QualityScore(quality) ==
    CASE quality = "excellent" -> 10
      [] quality = "good" -> 8
      [] quality = "fair" -> 5
      [] quality = "poor" -> 2
      [] OTHER -> 5

\* the score of choose_best_position before the random term of at most 0.5
PositionScore(pos) ==
    QualityScore(pos.quality)
    + (IF pos.wall_side # None THEN 3 ELSE 0)
    + (IF pos.relationship = "bedside" THEN 4
       ELSE IF pos.relationship \in {"sofaside", "balance_corner"} THEN 3 ELSE 0)

\* the positions choose_best_position can return: the scores are whole
\* numbers and the random term is below 1, so any position of the highest
\* score can come first, and none of a lower score
choose_best_position(positions) ==
    IF Len(positions) = 1 THEN {positions[1]}
    ELSE {pos \in Range(positions) :
            \A other \in Range(positions) :
                PositionScore(other) <= PositionScore(pos)}

Tradeoff(item_id, issue, severity) ==
    [item_id |-> item_id, issue |-> issue, severity |-> severity]

check_for_bad_placements(item, place, elements) ==
    LET windows == SelectSeq(elements, LAMBDA e : e.element_type = "window")
        doors == SelectSeq(elements, LAMBDA e : e.element_type = "door")
        Over(x, y, w, h) ==
            rectangles_overlap(place.x, place.y, place.width, place.height,
                               x, y, w, h)
    IN  (IF "bed" \in Words(item.base_id)
            /\ \E i \in 1..Len(windows) :
                  Over(windows[i].x, windows[i].y,
                       windows[i].width, windows[i].height)
         THEN <<Tradeoff(place.item_id, "bed_under_window", "high")>> ELSE <<>>)
        \o (IF \E i \in 1..Len(doors) :
                  Over(doors[i].x - DoorClearance, doors[i].y - DoorClearance,
                       doors[i].width + 2 * DoorClearance,
                       doors[i].height + 2 * DoorClearance)
            THEN <<Tradeoff(place.item_id, "blocks_door", "medium")>> ELSE <<>>)
        \o (IF "desk" \in Words(item.base_id) /\ ~place.in_command_position
            THEN <<Tradeoff(place.item_id, "desk_not_command", "medium")>>
            ELSE <<>>)

\* sorted(s, key, reverse = True): the elements by decreasing key, elements
\* of equal key in their order in s; keys[i] is the key of s[i]
SortedDesc(s, keys) ==
    LET Rank(i) == 1 + Cardinality({j \in 1..Len(s) :
                        keys[j] > keys[i] \/ (keys[j] = keys[i] /\ j < i)})
    IN  [r \in 1..Len(s) |-> s[CHOOSE i \in 1..Len(s) : Rank(i) = r]]

\* the first element of SortedDesc(s, keys), for a list that is not empty:
\* the earliest element of the largest key
FirstSortedDesc(s, keys) ==
    LET used == {keys[i] : i \in 1..Len(s)}
        largest == CHOOSE m \in used : \A k \in used : k <= m
        at == {i \in 1..Len(s) : keys[i] = largest}
    IN  s[CHOOSE i \in at : \A j \in at : i <= j]

QualityValue(quality) ==
    CASE quality = "excellent" -> 4
      [] quality = "good" -> 3
      [] quality = "fair" -> 2
      [] quality = "poor" -> 1
      [] OTHER -> 0

-----------------------------------------------------------------------------
(* What a placement stage hands back: the placement (NoPlacement for None)  *)
(* and the trade-offs it appended to the layout; Raised when it raised.     *)

NoPlacement == [item_id |-> None]
Placed(place, tradeoffs) == [placement |-> place, tradeoffs |-> tradeoffs, raised |-> FALSE]
NotPlaced(tradeoffs) == [placement |-> NoPlacement, tradeoffs |-> tradeoffs, raised |-> FALSE]
Raised == [placement |-> NoPlacement, tradeoffs |-> <<>>, raised |-> TRUE]

\* arithmetic or comparison on a dimension that is None raises TypeError
NullDimensions(item) == item.width = Null \/ item.height = Null

-----------------------------------------------------------------------------
(* furniture/command_position.py *)

filter_suitable_positions(command_positions, item) ==
    IF get_furniture_type(item.base_id) \in {"bed", "desk"}
    THEN command_positions ELSE <<>>

\* the positions by increasing (quality, wall behind)
WorstFirst(positions) ==
    SortedDesc(positions,
               [i \in 1..Len(positions) |->
                   0 - 2 * QualityValue(positions[i].quality)
                   - (IF positions[i].has_wall_behind THEN 1 ELSE 0)])

sort_command_positions(positions) ==
    SortedDesc(positions,
               [i \in 1..Len(positions) |->
                   2 * QualityValue(positions[i].quality)
                   + (IF positions[i].has_wall_behind THEN 1 ELSE 0)])

is_position_occupied(position, item, layout) ==
    \E i \in 1..Len(layout.furniture_placements) :
        position_overlaps(position.x - item.width \div 2,
                          position.y - item.height \div 2,
                          item.width, item.height, layout.furniture_placements[i])

check_bad_placement(position, item, elements) ==
    /\ "bed" \in Words(item.base_id)
    /\ \E i \in 1..Len(elements) :
          /\ elements[i].element_type = "window"
          /\ rectangles_overlap(position.x - item.width \div 2,
                                position.y - item.height \div 2,
                                item.width, item.height,
                                elements[i].x, elements[i].y,
                                elements[i].width, elements[i].height)

create_command_placement(position, item) ==
    [item_id |-> item.id, base_id |-> item.base_id,
     x |-> position.x - item.width \div 2,
     y |-> position.y - item.height \div 2,
     width |-> item.width, height |-> item.height, rotation |-> 0,
     in_command_position |-> TRUE,
     against_wall |-> position.has_wall_behind,
     feng_shui_quality |-> position.quality]

\* the first position, best first, that is neither occupied nor under a
\* window takes the item, centred on it; nothing compares the rectangle
\* with the room
place_in_command_position(item, layout, command_positions, elements) ==
    IF command_positions = <<>> THEN NotPlaced(<<>>)
    ELSE IF NullDimensions(item) THEN Raised
    ELSE
    LET suitable == filter_suitable_positions(command_positions, item)
        suitable_positions ==
            sort_command_positions(IF suitable = <<>> THEN command_positions
                                   ELSE suitable)
        free == SelectSeq(suitable_positions, LAMBDA position :
                    /\ ~is_position_occupied(position, item, layout)
                    /\ ~check_bad_placement(position, item, elements))
    IN  IF free = <<>> THEN NotPlaced(<<>>)
        ELSE LET position == free[1]
                 place == create_command_placement(position, item)
             IN  Placed(place,
                    (IF ~position.has_wall_behind
                     THEN <<Tradeoff(item.id, "no_wall_behind", "medium")>>
                     ELSE <<>>)
                    \o check_for_bad_placements(item, place, elements))

-----------------------------------------------------------------------------
(* furniture/wall_placement.py *)

MinWallSteps == 3           \* max(3, ...)

\* without wall elements, four virtual walls along the room's edges
process_walls(walls, room_width, room_length) ==
    IF walls = <<>>
    THEN << [x |-> 0, y |-> 0, width |-> room_width, height |-> WallThickness,
             orientation |-> "horizontal"],
            [x |-> room_width - WallThickness, y |-> 0, width |-> WallThickness,
             height |-> room_length, orientation |-> "vertical"],
            [x |-> 0, y |-> room_length - WallThickness, width |-> room_width,
             height |-> WallThickness, orientation |-> "horizontal"],
            [x |-> 0, y |-> 0, width |-> WallThickness, height |-> room_length,
             orientation |-> "vertical"] >>
    ELSE [i \in 1..Len(walls) |->
            [x |-> walls[i].x, y |-> walls[i].y,
             width |-> walls[i].width, height |-> walls[i].height,
             orientation |-> IF walls[i].width > walls[i].height
                             THEN "horizontal" ELSE "vertical"]]

\* the positions along one wall for an item of the given footprint
OneWallPositions(wall, width, height, rotation) ==
    IF wall.orientation = "horizontal"
    THEN LET max_steps == Max(MinWallSteps, wall.width \div WallStep)
         IN  [k \in 1..max_steps |->
                [x |-> wall.x + ((k - 1) * wall.width) \div max_steps,
                 y |-> IF wall.y < WallNear THEN wall.y + wall.height
                       ELSE wall.y - height,
                 rotation |-> rotation, quality |-> "good",
                 wall_side |-> IF wall.y < WallNear THEN "north" ELSE "south",
                 relationship |-> None]]
    ELSE LET max_steps == Max(MinWallSteps, wall.height \div WallStep)
         IN  [k \in 1..max_steps |->
                [x |-> IF wall.x < WallNear THEN wall.x + wall.width
                       ELSE wall.x - width,
                 y |-> wall.y + ((k - 1) * wall.height) \div max_steps,
                 rotation |-> rotation, quality |-> "good",
                 wall_side |-> IF wall.x < WallNear THEN "west" ELSE "east",
                 relationship |-> None]]

RECURSIVE AllWallPositions(_, _, _, _)
AllWallPositions(walls, width, height, rotation) ==
    IF walls = <<>> THEN <<>>
    ELSE OneWallPositions(Head(walls), width, height, rotation)
         \o AllWallPositions(Tail(walls), width, height, rotation)

generate_wall_positions(walls, item) ==
    AllWallPositions(walls, item.width, item.height, 0)

generate_rotated_wall_positions(walls, item) ==
    AllWallPositions(walls, item.height, item.width, 90)

\* the rotated positions are filtered with the dimensions already swapped
\* and rotation 90, so the filter swaps them back; the placement stores the
\* rotated footprint
place_against_wall(item, layout, walls, elements, room_width, room_length) ==
    IF NullDimensions(item) THEN {Raised}
    ELSE
    LET processed_walls == process_walls(walls, room_width, room_length)
        upright == filter_available_positions(
                       generate_wall_positions(processed_walls, item),
                       item.width, item.height, layout,
                       room_width, room_length, FALSE)
        available_positions ==
            IF upright # <<>> THEN upright
            ELSE filter_available_positions(
                     generate_rotated_wall_positions(processed_walls, item),
                     item.height, item.width, layout,
                     room_width, room_length, FALSE)
    IN  IF available_positions = <<>> THEN {NotPlaced(<<>>)}
        ELSE {LET place ==
                    [item_id |-> item.id, base_id |-> item.base_id,
                     x |-> best_position.x, y |-> best_position.y,
                     width |-> IF best_position.rotation = 90
                               THEN item.height ELSE item.width,
                     height |-> IF best_position.rotation = 90
                                THEN item.width ELSE item.height,
                     rotation |-> best_position.rotation,
                     in_command_position |-> FALSE, against_wall |-> TRUE,
                     feng_shui_quality |-> best_position.quality]
              IN  Placed(place, check_for_bad_placements(item, place, elements)) :
              best_position \in choose_best_position(available_positions)}

-----------------------------------------------------------------------------
(* furniture/energy_flow_placement.py *)

GridDivisor == 10           \* min(room_width, room_length) / 10

check_flow_overlap(x, y, width, height, flow_paths) ==
    \E i \in 1..Len(flow_paths) :
        rectangle_line_intersection(x, y, width, height,
                                    flow_paths[i].start_x, flow_paths[i].start_y,
                                    flow_paths[i].end_x, flow_paths[i].end_y)

\* how many k in range(int(room / step)) have k * step + size <= room
GridCount(room, size, step) ==
    IF size > room THEN 0
    ELSE Min(room \div step, (room - size) \div step + 1)

\* the grid cells, x in the outer loop, on which a footprint of width by
\* height stays in the room; under the optimal strategy the cells on which
\* it would lie over a flow path are left out
GridPositions(room_width, room_length, width, height, rotation, flow_paths, strategy) ==
    LET grid_step == Min(EnergyGridStep, Min(room_width, room_length) \div GridDivisor)
        cells == NestedPairs(GridCount(room_width, width, grid_step),
                             GridCount(room_length, height, grid_step))
        made == [k \in 1..Len(cells) |->
                   LET pos_x == (cells[k][1] - 1) * grid_step
                       pos_y == (cells[k][2] - 1) * grid_step
                       overlaps_flow ==
                           check_flow_overlap(pos_x, pos_y, width, height, flow_paths)
                   IN  [x |-> pos_x, y |-> pos_y, rotation |-> rotation,
                        quality |-> IF overlaps_flow THEN "fair" ELSE "good",
                        overlaps_flow |-> overlaps_flow]]
    IN  SelectSeq(made, LAMBDA pos : ~(strategy = "optimal" /\ pos.overlaps_flow))

generate_grid_positions(room_width, room_length, item, flow_paths, strategy) ==
    GridPositions(room_width, room_length, item.width, item.height, 0,
                  flow_paths, strategy)

generate_rotated_grid_positions(room_width, room_length, item, flow_paths, strategy) ==
    GridPositions(room_width, room_length, item.height, item.width, 90,
                  flow_paths, strategy)

\* as in place_against_wall, the rotated cells are filtered with swapped
\* dimensions and rotation 90
place_with_energy_flow(item, layout, strategy, energy_flows, elements, room_width, room_length) ==
    LET flow_paths == energy_flows.flow_paths
        upright == filter_available_positions(
                       generate_grid_positions(room_width, room_length, item,
                                               flow_paths, strategy),
                       item.width, item.height, layout,
                       room_width, room_length, FALSE)
        available_positions ==
            IF upright # <<>> THEN upright
            ELSE filter_available_positions(
                     generate_rotated_grid_positions(room_width, room_length,
                                                     item, flow_paths, strategy),
                     item.height, item.width, layout,
                     room_width, room_length, FALSE)
    IN  IF available_positions = <<>> THEN NotPlaced(<<>>)
        ELSE
        LET best_position ==
                FirstSortedDesc(available_positions,
                    [i \in 1..Len(available_positions) |->
                        2 * QualityValue(available_positions[i].quality)
                        + (IF available_positions[i].overlaps_flow THEN 0 ELSE 1)])
            place ==
                [item_id |-> item.id, base_id |-> item.base_id,
                 x |-> best_position.x, y |-> best_position.y,
                 width |-> IF best_position.rotation = 90
                           THEN item.height ELSE item.width,
                 height |-> IF best_position.rotation = 90
                            THEN item.width ELSE item.height,
                 rotation |-> best_position.rotation,
                 in_command_position |-> FALSE, against_wall |-> FALSE,
                 feng_shui_quality |-> best_position.quality]
        IN  Placed(place,
                (IF best_position.overlaps_flow
                 THEN <<Tradeoff(item.id, "blocks_energy_flow", "low")>>
                 ELSE <<>>)
                \o check_for_bad_placements(item, place, elements))

-----------------------------------------------------------------------------
(* furniture/utils.py, furniture/small_item_placement.py *)

determine_target_bagua_areas(item, strategy, life_goal) ==
    LET item_type == get_furniture_type(item.base_id)
        target_areas ==
            IF item_type = "bed" THEN <<"relationships", "health">>
            ELSE IF item_type = "desk" THEN <<"knowledge", "career">>
            ELSE IF item_type = "lighting" THEN <<"fame", "knowledge">>
            ELSE IF item_type = "decor" /\ "plant" \in Words(item.base_id)
                 THEN <<"wealth", "family", "health">>
            ELSE <<"center", "health">>
    IN  (CASE life_goal = "wealth" -> <<"wealth", "fame", "helpful_people">>
           [] life_goal = "career" -> <<"career", "knowledge", "helpful_people">>
           [] life_goal = "health" -> <<"center", "family", "health">>
           [] life_goal = "relationships" -> <<"relationships", "family", "center">>
           [] OTHER -> <<>>)
        \o target_areas

SmallPosition(x, y, quality, relationship, bagua_area) ==
    [x |-> x, y |-> y, rotation |-> 0, quality |-> quality,
     relationship |-> relationship, bagua_area |-> bagua_area]

\* what one placed item contributes: the two sides of a bed for a
\* nightstand, the two ends of a sofa for a side table, one spot for a lamp
NearbyPositions(placed_item, item) ==
    LET w == Words(item.base_id)
        pw == Words(placed_item.base_id)
        side_y == placed_item.y + (placed_item.height - item.height) \div 2
        Sides(relationship) ==
            << SmallPosition(placed_item.x - item.width - NearbyGap, side_y,
                             "excellent", relationship, None),
               SmallPosition(placed_item.x + placed_item.width + NearbyGap, side_y,
                             "excellent", relationship, None) >>
    IN  IF "nightstand" \in w /\ "bed" \in pw THEN Sides("bedside")
        ELSE IF "side_table" \in w /\ "sofa" \in pw THEN Sides("sofaside")
        ELSE IF "lamp" \in w /\ pw \cap {"desk", "sofa", "chair"} # {}
             THEN << SmallPosition(placed_item.x + placed_item.width + NearbyGap,
                                   placed_item.y, "excellent", "lighting", None) >>
        ELSE <<>>

RECURSIVE NearbyAll(_, _)
NearbyAll(placements, item) ==
    IF placements = <<>> THEN <<>>
    ELSE NearbyPositions(Head(placements), item) \o NearbyAll(Tail(placements), item)

generate_furniture_nearby_positions(layout, item) ==
    NearbyAll(layout.furniture_placements, item)

generate_energy_balance_positions(energy_flows, item) ==
    LET issues == SelectSeq(energy_flows.energy_issues, LAMBDA issue :
                      issue.type \in {"sharp_corner", "stagnant_energy"})
        doors == SelectSeq(energy_flows.energy_entry_points, LAMBDA ep :
                      ep.type = "door" /\ ep.strength = "strong")
    IN  (IF "plant" \in Words(item.base_id)
         THEN [i \in 1..Len(issues) |->
                 SmallPosition(issues[i].x - item.width \div 2,
                               issues[i].y - item.height \div 2, "excellent",
                               IF issues[i].type = "sharp_corner"
                               THEN "balance_corner" ELSE "activate_energy",
                               None)]
         ELSE <<>>)
        \o (IF Words(item.base_id) \cap {"fountain", "water"} # {}
            THEN [i \in 1..Len(doors) |->
                    SmallPosition(doors[i].x + EntryOffset, doors[i].y + EntryOffset,
                                  "excellent", "enhance_entry", None)]
            ELSE <<>>)

\* the grid of one bagua area, x in the outer loop
AreaPositions(area, area_name, item) ==
    LET grid_step == Min(BaguaGridStep, Min(area.width, area.height) \div 3)
        cells == NestedPairs(GridCount(area.width, item.width, grid_step),
                             GridCount(area.height, item.height, grid_step))
    IN  [k \in 1..Len(cells) |->
            SmallPosition(area.x + (cells[k][1] - 1) * grid_step,
                          area.y + (cells[k][2] - 1) * grid_step,
                          "good", None, area_name)]

RECURSIVE generate_bagua_area_positions(_, _, _)
generate_bagua_area_positions(bagua_map, target_areas, item) ==
    IF target_areas = <<>> THEN <<>>
    ELSE (IF Head(target_areas) \in DOMAIN bagua_map
          THEN AreaPositions(bagua_map[Head(target_areas)], Head(target_areas), item)
          ELSE <<>>)
         \o generate_bagua_area_positions(bagua_map, Tail(target_areas), item)

RelationPriority(relationship) ==
    CASE relationship = "bedside" -> 5
      [] relationship \in {"sofaside", "balance_corner"} -> 4
      [] relationship \in {"activate_energy", "enhance_entry"} -> 3
      [] relationship = "lighting" -> 2
      [] OTHER -> 0

\* the key of sort_small_item_positions: quality, then relationship, then
\* whether the position lies in a target area
SmallPositionKey(pos, target_areas) ==
    12 * QualityValue(pos.quality) + 2 * RelationPriority(pos.relationship)
    + (IF pos.bagua_area \in Range(target_areas) THEN 1 ELSE 0)

place_small_item(item, layout, strategy, bagua_map, energy_flows, elements, room_width, room_length, life_goal) ==
    LET target_areas == determine_target_bagua_areas(item, strategy, life_goal)
        potential_positions ==
            generate_furniture_nearby_positions(layout, item)
            \o generate_energy_balance_positions(energy_flows, item)
            \o generate_bagua_area_positions(bagua_map, target_areas, item)
        available_positions ==
            filter_available_positions(potential_positions, item.width, item.height,
                                       layout, room_width, room_length, FALSE)
    IN  IF available_positions = <<>> THEN NotPlaced(<<>>)
        ELSE
        LET best_position ==
                FirstSortedDesc(available_positions,
                    [i \in 1..Len(available_positions) |->
                        SmallPositionKey(available_positions[i], target_areas)])
            place ==
                [item_id |-> item.id, base_id |-> item.base_id,
                 x |-> best_position.x, y |-> best_position.y,
                 width |-> item.width, height |-> item.height,
                 rotation |-> best_position.rotation,
                 in_command_position |-> FALSE, against_wall |-> FALSE,
                 feng_shui_quality |-> best_position.quality]
        IN  Placed(place, check_for_bad_placements(item, place, elements))

-----------------------------------------------------------------------------
(* furniture/general_placement.py *)

GridFifth == 5              \* min(room_width, room_length) / 5

sort_usable_spaces(usable_spaces) ==
    LET q == [i \in 1..Len(usable_spaces) |-> QualityValue(usable_spaces[i].quality)]
        Rank(i) == 1 + Cardinality({j \in 1..Len(usable_spaces) :
                        \/ q[j] > q[i]
                        \/ q[j] = q[i] /\ usable_spaces[j].area > usable_spaces[i].area
                        \/ q[j] = q[i] /\ usable_spaces[j].area = usable_spaces[i].area
                           /\ j < i})
    IN  [r \in 1..Len(usable_spaces) |->
            usable_spaces[CHOOSE i \in 1..Len(usable_spaces) : Rank(i) = r]]

GeneralPosition(x, y, rotation) == [x |-> x, y |-> y, rotation |-> rotation]

\* the four corners and the centre of the space, upright, and again turned
\* when the item is not square and the space takes it turned
generate_positions_in_space(space, item) ==
    LET Five(w, h, rotation) ==
            << GeneralPosition(space.x, space.y, rotation),
               GeneralPosition(space.x + space.width - w, space.y, rotation),
               GeneralPosition(space.x, space.y + space.height - h, rotation),
               GeneralPosition(space.x + space.width - w,
                               space.y + space.height - h, rotation),
               GeneralPosition(space.x + (space.width - w) \div 2,
                               space.y + (space.height - h) \div 2, rotation) >>
    IN  Five(item.width, item.height, 0)
        \o (IF item.width # item.height
               /\ space.width >= item.height /\ space.height >= item.width
            THEN Five(item.height, item.width, 90) ELSE <<>>)

\* the first available position of the first space, best first, that takes
\* the item upright; when no space gives one, a high unable_to_place
\* trade-off is appended
place_furniture_general(item, layout, usable_spaces, elements, room_width, room_length) ==
    IF usable_spaces # <<>> /\ NullDimensions(item) THEN Raised
    ELSE
    LET sorted_spaces == sort_usable_spaces(usable_spaces)
        Available(space) ==
            filter_available_positions(generate_positions_in_space(space, item),
                                       item.width, item.height, layout,
                                       room_width, room_length, TRUE)
        giving == SelectSeq(sorted_spaces, LAMBDA space :
                      /\ ~(space.width < item.width \/ space.height < item.height)
                      /\ Available(space) # <<>>)
    IN  IF giving = <<>>
        THEN NotPlaced(<<Tradeoff(item.id, "unable_to_place", "high")>>)
        ELSE
        LET space == giving[1]
            best_position == Available(space)[1]
            place ==
                [item_id |-> item.id, base_id |-> item.base_id,
                 x |-> best_position.x, y |-> best_position.y,
                 width |-> IF best_position.rotation = 90
                           THEN item.height ELSE item.width,
                 height |-> IF best_position.rotation = 90
                            THEN item.width ELSE item.height,
                 rotation |-> best_position.rotation,
                 in_command_position |-> FALSE, against_wall |-> FALSE,
                 feng_shui_quality |-> space.quality]
        IN  Placed(place,
                <<Tradeoff(item.id, "suboptimal_placement", "low")>>
                \o check_for_bad_placements(item, place, elements))

\* the whole-room grid, upright and then turned, x in the outer loop
LastResortPositions(room_width, room_length, width, height, rotation) ==
    LET grid_step == Min(LastResortGridStep,
                         Min(room_width, room_length) \div GridFifth)
        cells == NestedPairs(GridCount(room_width, width, grid_step),
                             GridCount(room_length, height, grid_step))
    IN  [k \in 1..Len(cells) |->
            [x |-> (cells[k][1] - 1) * grid_step,
             y |-> (cells[k][2] - 1) * grid_step,
             rotation |-> rotation, quality |-> "poor"]]

try_alternative_placement(item, layout, room_width, room_length) ==
    IF NullDimensions(item) THEN Raised
    ELSE
    LET positions ==
            LastResortPositions(room_width, room_length,
                                item.width, item.height, 0)
            \o (IF item.width # item.height
                THEN LastResortPositions(room_width, room_length,
                                         item.height, item.width, 90)
                ELSE <<>>)
        available_positions ==
            filter_available_positions(positions, item.width, item.height, layout,
                                       room_width, room_length, TRUE)
    IN  IF available_positions = <<>> THEN NotPlaced(<<>>)
        ELSE
        LET pos == available_positions[1]
        IN  Placed([item_id |-> item.id, base_id |-> item.base_id,
                    x |-> pos.x, y |-> pos.y,
                    width |-> IF pos.rotation = 90 THEN item.height ELSE item.width,
                    height |-> IF pos.rotation = 90 THEN item.width ELSE item.height,
                    rotation |-> pos.rotation,
                    in_command_position |-> FALSE, against_wall |-> FALSE,
                    feng_shui_quality |-> "poor"],
                   <<Tradeoff(item.id, "last_resort_placement", "medium")>>)

-----------------------------------------------------------------------------
(* kua_calculator.py *)

\* sum(int(digit) for digit in str(n))
RECURSIVE DigitSum(_)
DigitSum(n) == IF n < 10 THEN n ELSE (n % 10) + DigitSum(n \div 10)

\* while year_sum > 9: year_sum = sum of its digits
RECURSIVE ReduceYear(_)
ReduceYear(year_sum) ==
    IF year_sum > 9 THEN ReduceYear(DigitSum(year_sum)) ELSE year_sum

\* str.lower() on the gender strings a request carries
Lower(gender) == IF gender = "Male" THEN "male"
                 ELSE IF gender = "Female" THEN "female" ELSE gender

\* the calculation without the two special cases of the male branch and
\* without the subtraction of 9 in the female branch
KuaWithoutAdjustments(gender, birth_year, birth_month, birth_day) ==
    LET lunar_year == IF birth_month = 1 \/ (birth_month = 2 /\ birth_day < 4)
                      THEN birth_year - 1 ELSE birth_year
        year_sum == ReduceYear(DigitSum(lunar_year))
    IN  IF Lower(gender) = "male" THEN 10 - year_sum ELSE year_sum + 5

\* the four fields are present and truthy in every occupant enumerated; the
\* replacement of 5 by 8 is the elif of the test kua > 9, so it is not
\* applied to a 5 that the subtraction of 9 produced
calculate_kua_number(gender, birth_year, birth_month, birth_day) ==
    LET lunar_year == IF birth_month = 1 \/ (birth_month = 2 /\ birth_day < 4)
                      THEN birth_year - 1 ELSE birth_year
        year_sum == ReduceYear(DigitSum(lunar_year))
    IN  IF Lower(gender) = "male"
        THEN IF 10 - year_sum = 10 THEN 1
             ELSE IF 10 - year_sum = 5 THEN 2
             ELSE 10 - year_sum
        ELSE IF year_sum + 5 > 9 THEN year_sum + 5 - 9
             ELSE IF year_sum + 5 = 5 THEN 8
             ELSE year_sum + 5

get_kua_group(kua_number) ==
    IF kua_number = 0 THEN None
    ELSE IF kua_number \in {1, 3, 4, 9} THEN "east"
    ELSE IF kua_number \in {2, 5, 6, 7, 8} THEN "west"
    ELSE None

-----------------------------------------------------------------------------
(* furniture/placer.py and engine.py: the two scorers *)

BaseScore == 70
CommandWeight == 15         \* command_percent * 0.15
WallWeight == 10            \* wall_percent * 0.1
QualityWeight == 10         \* quality_percent * 0.1
HighPenalty == 8
MediumPenalty == 4
LowPenalty == 1

CountIf(s, Test(_)) == Cardinality({i \in 1..Len(s) : Test(s[i])})

\* the score without max(0, min(100, score))
ScoreOfUnclamped(furniture_placements, high, medium, low) ==
    LET total_items == Len(furniture_placements)
        points ==
            CommandWeight * CountIf(furniture_placements,
                                    LAMBDA item : item.in_command_position)
            + WallWeight * CountIf(furniture_placements,
                                   LAMBDA item : item.against_wall)
            + QualityWeight * CountIf(furniture_placements,
                  LAMBDA item : item.feng_shui_quality \in {"excellent", "good"})
    IN  IF total_items = 0 THEN 0
        ELSE BaseScore + points \div total_items
             - high * HighPenalty - medium * MediumPenalty - low * LowPenalty

\* 70 plus the three weighted percentages, less the penalties, clamped and
\* truncated by int(); the percentages add up to points / total_items
ScoreOf(furniture_placements, high, medium, low) ==
    LET total_items == Len(furniture_placements)
        points ==
            CommandWeight * CountIf(furniture_placements,
                                    LAMBDA item : item.in_command_position)
            + WallWeight * CountIf(furniture_placements,
                                   LAMBDA item : item.against_wall)
            + QualityWeight * CountIf(furniture_placements,
                  LAMBDA item : item.feng_shui_quality \in {"excellent", "good"})
    IN  IF total_items = 0 THEN 0
        ELSE Max(0, Min(100, BaseScore + points \div total_items
                             - high * HighPenalty - medium * MediumPenalty
                             - low * LowPenalty))

\* FurniturePlacer._calculate_layout_score: every trade-off is counted;
\* any severity other than high and medium counts as low
PlacerScore(layout) ==
    ScoreOf(layout.furniture_placements,
            CountIf(layout.tradeoffs, LAMBDA t : t.severity = "high"),
            CountIf(layout.tradeoffs, LAMBDA t : t.severity = "medium"),
            CountIf(layout.tradeoffs, LAMBDA t : t.severity \notin {"high", "medium"}))

severity_value(severity) ==
    CASE severity = "high" -> 3
      [] severity = "medium" -> 2
      [] severity = "low" -> 1
      [] OTHER -> 0

\* FengShuiEngine._calculate_layout_score: per item, the first trade-off of
\* the greatest severity value is kept, and items are counted by it
EngineScore(layout) ==
    LET ids == {layout.tradeoffs[i].item_id : i \in 1..Len(layout.tradeoffs)}
        Of(id) == SelectSeq(layout.tradeoffs, LAMBDA t : t.item_id = id)
        Worst(id) ==
            FirstSortedDesc(Of(id),
                [i \in 1..Len(Of(id)) |-> severity_value(Of(id)[i].severity)]).severity
    IN  ScoreOf(layout.furniture_placements,
                Cardinality({id \in ids : Worst(id) = "high"}),
                Cardinality({id \in ids : Worst(id) = "medium"}),
                Cardinality({id \in ids : Worst(id) = "low"}))

-----------------------------------------------------------------------------
(* furniture/placer.py *)

\* quantity instances of one selection, ids furniture_id_0, furniture_id_1, ...
InstancesOf(selection) ==
    [k \in 1..selection.quantity |->
        [id |-> <<selection.id, k - 1>>, base_id |-> selection.id,
         width |-> selection.width, height |-> selection.height]]

RECURSIVE ExtractFrom(_)
ExtractFrom(selections) ==
    IF selections = <<>> THEN <<>>
    ELSE (IF Head(selections).quantity > 0 THEN InstancesOf(Head(selections))
          ELSE <<>>)
         \o ExtractFrom(Tail(selections))

extract_furniture_items(furniture_selections) == ExtractFrom(furniture_selections)

\* the category of an item; the type decides before the area is looked at
Category(item) ==
    LET item_type == get_furniture_type(item.base_id) IN
    IF item_type \in {"bed", "desk"} THEN "command"
    ELSE IF item_type \in {"storage", "bookcase", "dresser", "wardrobe", "cabinet"}
         THEN "wall"
    ELSE IF item.width * item.height < SmallAreaLimit THEN "small"
    ELSE "large"

\* the items in the order of the request, not grouped
RequestOrder(all_items) == all_items

\* command_items, wall_items, large_items, small_items, one after the other:
\* the order in which place_all_furniture takes the items
categorize_furniture(all_items) ==
    SelectSeq(all_items, LAMBDA item : Category(item) = "command")
    \o SelectSeq(all_items, LAMBDA item : Category(item) = "wall")
    \o SelectSeq(all_items, LAMBDA item : Category(item) = "large")
    \o SelectSeq(all_items, LAMBDA item : Category(item) = "small")

EmptyLayout == [furniture_placements |-> <<>>, tradeoffs |-> <<>>,
                feng_shui_score |-> 0]

-----------------------------------------------------------------------------
(* layout_generator.py: the three passes *)

Passes == 3

Strategy(p, goal) ==
    IF p = 1 THEN "optimal"
    ELSE IF p = 2 THEN "space_conscious"
    ELSE IF goal # "" THEN "life_goal" ELSE "optimal"

\* the "strategy" entry written into the finished layout
StrategyLabel(p, goal) ==
    IF p = 3 /\ goal = "" THEN "variant" ELSE Strategy(p, goal)

NoLayout == [strategy |-> None]
NoResponse == [error |-> FALSE, optimal_layout |-> NoLayout,
               space_conscious_layout |-> NoLayout, life_goal_layout |-> NoLayout,
               sent |-> FALSE]
\* an except branch that handed back the layouts finished before the error
ErrorWithLayouts ==
    [error |-> TRUE,
     optimal_layout |-> IF Len(layouts) >= 1 THEN layouts[1] ELSE NoLayout,
     space_conscious_layout |-> IF Len(layouts) >= 2 THEN layouts[2] ELSE NoLayout,
     life_goal_layout |-> NoLayout, sent |-> TRUE]

\* what the service returns from its except branch
ErrorResponse == [error |-> TRUE, optimal_layout |-> NoLayout,
                  space_conscious_layout |-> NoLayout, life_goal_layout |-> NoLayout,
                  sent |-> TRUE]

-----------------------------------------------------------------------------
(* The request handler as a state machine: services/layout_generator.py     *)
(* calls the analyzer, then the generator runs place_all_furniture three    *)
(* times; every stage attempted on an item is one step.                     *)

NoOccupant == [gender |-> None, birth_year |-> 0, birth_month |-> 0, birth_day |-> 0]
NoScores == [placer |-> -1, engine |-> -1]

Init ==
    /\ req_room \in RoomData
    /\ req_items \in Selections
    /\ req_goal \in LifeGoals
    /\ pc = "start"
    /\ analysis = NoAnalysis
    /\ pass = 0
    /\ acc = EmptyLayout
    /\ idx = 0
    /\ stage = "none"
    /\ layouts = <<>>
    /\ response = NoResponse
    /\ stage_log = <<>>
    /\ occupant = NoOccupant
    /\ kua = 0
    /\ grp = None
    /\ score_in = EmptyLayout
    /\ score_out = NoScores

\* the variables the request handler never touches
Idle == <<occupant, kua, grp, score_in, score_out>>
Request == <<req_room, req_items, req_goal>>

\* the items of the request in the order place_all_furniture takes them
Items == categorize_furniture(extract_furniture_items(req_items))

\* RoomAnalyzer.__init__ raises ValueError, or analyze_room raises TypeError;
\* the service's except branch answers with the error and no layout
RejectRoom ==
    /\ pc = "start"
    /\ InvalidDimensions(req_room) \/ AnalysisRaises(req_room)
    /\ response' = ErrorResponse
    /\ pc' = "done"
    /\ UNCHANGED <<Request, analysis, pass, acc, idx, stage, layouts, stage_log, Idle>>

AnalyzeRoom ==
    /\ pc = "start"
    /\ ~InvalidDimensions(req_room)
    /\ ~AnalysisRaises(req_room)
    /\ analysis' = analyze_room(req_room)
    /\ pass' = 1
    /\ pc' = "begin"
    /\ UNCHANGED <<Request, acc, idx, stage, layouts, response, stage_log, Idle>>

\* a placer that went on from what the previous call left behind
ContinuedLayout(previous) == previous

\* the layout a new place_all_furniture call starts from
NewLayout(previous) == EmptyLayout

\* a new FurniturePlacer and the start of its place_all_furniture
BeginPass ==
    /\ pc = "begin"
    /\ acc' = NewLayout(acc)
    /\ idx' = 1
    /\ stage' = "primary"
    /\ stage_log' = <<>>
    /\ pc' = "placing"
    /\ UNCHANGED <<Request, analysis, pass, layouts, response, Idle>>

\* the stage that follows a failed stage for an item of the category under
\* the strategy, "none" when the loop body has nothing left to try
NextStage(category, strategy, failed) ==
    IF failed = "primary"
    THEN IF category = "command" /\ strategy = "optimal"
         THEN "none" ELSE "general"
    ELSE IF failed = "general" /\ category = "command"
            /\ strategy = "space_conscious"
         THEN "last_resort"
    ELSE "none"

\* what one stage's outcome o does to the running pass
Apply(o) ==
    LET item == Items[idx]
        placed == o.placement # NoPlacement
        next == NextStage(Category(item), Strategy(pass, req_goal), stage)
    IN  IF o.raised
        THEN /\ response' = ErrorResponse
             /\ pc' = "done"
             /\ stage_log' = Append(stage_log,
                    [item_id |-> item.id, stage |-> stage, placed |-> FALSE])
             /\ UNCHANGED <<acc, idx, stage>>
        ELSE /\ acc' = [acc EXCEPT
                    !.tradeoffs = @ \o o.tradeoffs,
                    !.furniture_placements =
                        IF placed THEN Append(@, o.placement) ELSE @]
             /\ stage_log' = Append(stage_log,
                    [item_id |-> item.id, stage |-> stage, placed |-> placed])
             /\ IF placed \/ next = "none"
                THEN idx' = idx + 1 /\ stage' = "primary"
                ELSE idx' = idx /\ stage' = next
             /\ UNCHANGED <<pc, response>>

AtStage(category, st) ==
    /\ pc = "placing"
    /\ idx <= Len(Items)
    /\ stage = st
    /\ category \in {Category(Items[idx]), "any"}

PlaceCommand ==
    /\ AtStage("command", "primary")
    /\ \E o \in {place_in_command_position(Items[idx], acc,
                 analysis.command_positions, analysis.elements)} : Apply(o)
    /\ UNCHANGED <<Request, analysis, pass, layouts, Idle>>

\* the placer has no attribute walls, so the list of walls handed over is
\* always empty
PlaceWall ==
    /\ AtStage("wall", "primary")
    /\ \E o \in place_against_wall(Items[idx], acc, <<>>, analysis.elements,
                    analysis.dimensions.width, analysis.dimensions.length) :
          Apply(o)
    /\ UNCHANGED <<Request, analysis, pass, layouts, Idle>>

PlaceLarge ==
    /\ AtStage("large", "primary")
    /\ \E o \in {place_with_energy_flow(Items[idx], acc, Strategy(pass, req_goal),
                 analysis.energy_flow, analysis.elements,
                 analysis.dimensions.width, analysis.dimensions.length)} : Apply(o)
    /\ UNCHANGED <<Request, analysis, pass, layouts, Idle>>

PlaceSmall ==
    /\ AtStage("small", "primary")
    /\ \E o \in {place_small_item(Items[idx], acc, Strategy(pass, req_goal),
                 analysis.bagua_map, analysis.energy_flow, analysis.elements,
                 analysis.dimensions.width, analysis.dimensions.length, req_goal)} : Apply(o)
    /\ UNCHANGED <<Request, analysis, pass, layouts, Idle>>

GeneralFallback ==
    /\ AtStage("any", "general")
    /\ \E o \in {place_furniture_general(Items[idx], acc, analysis.usable_spaces,
                 analysis.elements,
                 analysis.dimensions.width, analysis.dimensions.length)} : Apply(o)
    /\ UNCHANGED <<Request, analysis, pass, layouts, Idle>>

LastResort ==
    /\ AtStage("any", "last_resort")
    /\ \E o \in {try_alternative_placement(Items[idx], acc,
                 analysis.dimensions.width, analysis.dimensions.length)} : Apply(o)
    /\ UNCHANGED <<Request, analysis, pass, layouts, Idle>>

\* the end of place_all_furniture: the score, then the generator labels the
\* layout and goes on to the next pass or returns
EndPass ==
    /\ pc = "placing"
    /\ idx > Len(Items)
    /\ LET score == PlacerScore(acc) IN
       /\ acc' = [acc EXCEPT !.feng_shui_score = score]
       /\ layouts' = Append(layouts,
              [furniture_placements |-> acc.furniture_placements,
               tradeoffs |-> acc.tradeoffs,
               feng_shui_score |-> score,
               strategy |-> StrategyLabel(pass, req_goal)])
    /\ IF pass < Passes
       THEN pass' = pass + 1 /\ pc' = "begin"
       ELSE pass' = pass /\ pc' = "respond"
    /\ UNCHANGED <<Request, analysis, idx, stage, response, stage_log, Idle>>

Respond ==
    /\ pc = "respond"
    /\ response' = [error |-> FALSE, optimal_layout |-> layouts[1],
                    space_conscious_layout |-> layouts[2],
                    life_goal_layout |-> layouts[3], sent |-> TRUE]
    /\ pc' = "done"
    /\ UNCHANGED <<Request, analysis, pass, acc, idx, stage, layouts, stage_log, Idle>>

Next ==
    \/ RejectRoom
    \/ AnalyzeRoom
    \/ BeginPass
    \/ PlaceCommand
    \/ PlaceWall
    \/ PlaceLarge
    \/ PlaceSmall
    \/ GeneralFallback
    \/ LastResort
    \/ EndPass
    \/ Respond

Spec == Init /\ [][Next]_vars

-----------------------------------------------------------------------------
(* The kua calculator on its own: LayoutGenerator.__init__ calls it for the *)
(* primary occupant, and it may be called again with the same occupant.     *)

\* what the request pipeline's variables hold while another part is examined
NoRequest == [dimensions |-> None]
PipelineIdle ==
    /\ req_room = NoRequest
    /\ req_items = <<>>
    /\ req_goal = ""
    /\ analysis = NoAnalysis
    /\ pass = 0
    /\ acc = EmptyLayout
    /\ idx = 0
    /\ stage = "none"
    /\ layouts = <<>>
    /\ response = NoResponse
    /\ stage_log = <<>>
Pipeline == <<req_room, req_items, req_goal, analysis, pass, acc, idx, stage,
              layouts, response, stage_log>>

Genders == {"male", "Male", "female", "Female", "other"}
BirthYears == 1..MaxYear \cup {1985, 1989, 1999, 2000}
BirthMonths == {1, 2, 3, 12}
BirthDays == {3, 4}
Occupants ==
    [gender : Genders, birth_year : BirthYears,
     birth_month : BirthMonths, birth_day : BirthDays]

InitKua ==
    /\ PipelineIdle
    /\ occupant \in Occupants
    /\ kua = 0
    /\ grp = None
    /\ pc = "kua_start"
    /\ score_in = EmptyLayout
    /\ score_out = NoScores

\* a call of calculate_kua_number; a later call repeats it with the same
\* occupant
CalculateKua ==
    /\ pc \in {"kua_start", "kua_known", "kua_grouped"}
    /\ kua' = calculate_kua_number(occupant.gender, occupant.birth_year,
                                   occupant.birth_month, occupant.birth_day)
    /\ pc' = IF pc = "kua_start" THEN "kua_known" ELSE pc
    /\ UNCHANGED <<Pipeline, occupant, grp, score_in, score_out>>

GetKuaGroup ==
    /\ pc = "kua_known"
    /\ grp' = get_kua_group(kua)
    /\ pc' = "kua_grouped"
    /\ UNCHANGED <<Pipeline, occupant, kua, score_in, score_out>>

NextKua ==
    \/ CalculateKua
    \/ GetKuaGroup

SpecKua == InitKua /\ [][NextKua]_vars

-----------------------------------------------------------------------------
(* The two scorers on arbitrary layouts: the placer's at the end of a pass, *)
(* the engine's when modify_layout recomputes the score.                    *)

\* the three fields of a placement that the scorers read
ScoredPlacements ==
    {[in_command_position |-> TRUE, against_wall |-> TRUE,
      feng_shui_quality |-> "excellent"],
     [in_command_position |-> FALSE, against_wall |-> TRUE,
      feng_shui_quality |-> "fair"],
     [in_command_position |-> FALSE, against_wall |-> FALSE,
      feng_shui_quality |-> "poor"]}
Severities == {"high", "medium", "low", "info"}
ScoredTradeoffs ==
    {Tradeoff(id, "issue", severity) : id \in 1..2, severity \in Severities}

SeqsUpTo(S, n) == UNION {[1..k -> S] : k \in 0..n}

\* HeavyCount high-severity trade-offs, each on an item of its own
HeavyTradeoffs == [k \in 1..HeavyCount |-> Tradeoff(10 + k, "issue", "high")]

ScoredLayouts ==
    {[furniture_placements |-> ps, tradeoffs |-> ts \o heavy, feng_shui_score |-> 0] :
        ps \in SeqsUpTo(ScoredPlacements, MaxScorePlacements),
        ts \in SeqsUpTo(ScoredTradeoffs, MaxScoreTradeoffs),
        heavy \in {<<>>, HeavyTradeoffs}}

InitScore ==
    /\ PipelineIdle
    /\ occupant = NoOccupant
    /\ kua = 0
    /\ grp = None
    /\ pc = "score_start"
    /\ score_in \in ScoredLayouts
    /\ score_out = NoScores

\* FurniturePlacer._calculate_layout_score on the layout
ScorePlacer ==
    /\ pc = "score_start"
    /\ score_out' = [score_out EXCEPT !.placer = PlacerScore(score_in)]
    /\ pc' = "score_placer"
    /\ UNCHANGED <<Pipeline, occupant, kua, grp, score_in>>

\* FengShuiEngine._calculate_layout_score on the layout, stored into it as
\* modify_layout does
ScoreEngine ==
    /\ pc = "score_placer"
    /\ score_out' = [score_out EXCEPT !.engine = EngineScore(score_in)]
    /\ score_in' = [score_in EXCEPT !.feng_shui_score = EngineScore(score_in)]
    /\ pc' = "score_engine"
    /\ UNCHANGED <<Pipeline, occupant, kua, grp>>

NextScore ==
    \/ ScorePlacer
    \/ ScoreEngine

SpecScore == InitScore /\ [][NextScore]_vars

-----------------------------------------------------------------------------
(* Properties of the kua calculator, checked under SpecKua *)

EastNumbers == {1, 3, 4, 9}
WestNumbers == {2, 5, 6, 7, 8}

\* C9: for every gender and birth date, calculate_kua_number returns a number
\* in 1..9, a repeated call returns the same number, and get_kua_group gives
\* east exactly for 1, 3, 4, 9 and west exactly for 2, 5, 6, 7, 8, never no
\* group.
C9_KuaInRangeAndGrouped ==
    /\ [](pc # "kua_start" => kua \in 1..9)
    /\ [](pc = "kua_grouped" =>
            /\ grp \in {"east", "west"}
            /\ (grp = "east" <=> kua \in EastNumbers)
            /\ (grp = "west" <=> kua \in WestNumbers))
    /\ [][pc # "kua_start" => kua' = kua]_vars

\* a female occupant whose year reduces to 9: the number is 5, group west
C9_Witness ==
    /\ pc = "kua_grouped"
    /\ Lower(occupant.gender) = "female"
    /\ kua = 5
    /\ grp = "west"

\* C10: for a female occupant the number is the digital root of the adjusted
\* year plus 5, less 9 when that exceeds 9, with a result of 5 replaced by 8;
\* so it is never 5.
C10_FemaleNeverFive ==
    (pc # "kua_start" /\ Lower(occupant.gender) = "female") =>
        LET adjusted == IF occupant.birth_month = 1
                           \/ (occupant.birth_month = 2 /\ occupant.birth_day < 4)
                        THEN occupant.birth_year - 1 ELSE occupant.birth_year
            sum == ReduceYear(DigitSum(adjusted)) + 5
            reduced == IF sum > 9 THEN sum - 9 ELSE sum
        IN  /\ kua = (IF reduced = 5 THEN 8 ELSE reduced)
            /\ kua # 5

-----------------------------------------------------------------------------
(* Properties of the scorers, checked under SpecScore *)

\* C7: for a layout with any number of placements and any trade-offs, the
\* placer's score and the score the engine recomputes are integers from 0 to
\* 100.
C7_ScoreInRange ==
    /\ (pc \in {"score_placer", "score_engine"} => score_out.placer \in 0..100)
    /\ (pc = "score_engine" =>
            /\ score_out.engine \in 0..100
            /\ score_in.feng_shui_score \in 0..100)

\* penalties beyond the 70 base points on a layout that has placements: both
\* scorers stop at 0
C7_Witness ==
    /\ pc = "score_engine"
    /\ score_in.furniture_placements # <<>>
    /\ Len(score_in.tradeoffs) >= HeavyCount
    /\ score_out.placer = 0
    /\ score_out.engine = 0

-----------------------------------------------------------------------------
(* Properties of the layouts and of the request, checked under Spec *)

Overlapping(p, q) ==
    rectangles_overlap(p.x, p.y, p.width, p.height, q.x, q.y, q.width, q.height)
Content(layout) ==
    [furniture_placements |-> layout.furniture_placements,
     tradeoffs |-> layout.tradeoffs,
     feng_shui_score |-> layout.feng_shui_score]

\* C1: in every finished layout no two placements have overlapping
\* rectangles, a rectangle being the stored x, y, width, height.
C1_NoOverlap ==
    \A n \in 1..Len(layouts) :
        LET ps == layouts[n].furniture_placements IN
        \A i, j \in 1..Len(ps) : i < j => ~Overlapping(ps[i], ps[j])

\* C2: in every finished layout every placement rectangle lies inside the
\* room, whichever stage made the placement.
C2_InsideRoom ==
    \A n \in 1..Len(layouts) :
        LET ps == layouts[n].furniture_placements IN
        \A i \in 1..Len(ps) :
            /\ ps[i].x >= 0
            /\ ps[i].y >= 0
            /\ ps[i].x + ps[i].width <= analysis.dimensions.width
            /\ ps[i].y + ps[i].height <= analysis.dimensions.length

TimesPlaced(layout, id) ==
    Cardinality({i \in 1..Len(layout.furniture_placements) :
                    layout.furniture_placements[i].item_id = id})
ReportedUnplaced(layout, id) ==
    \E i \in 1..Len(layout.tradeoffs) :
        /\ layout.tradeoffs[i].item_id = id
        /\ layout.tradeoffs[i].issue = "unable_to_place"
        /\ layout.tradeoffs[i].severity = "high"

\* C3: in every finished layout every requested instance is placed exactly
\* once, or is absent and has a high-severity unable_to_place trade-off.
C3_PlacedOnceOrReported ==
    \A n \in 1..Len(layouts) : \A k \in 1..Len(Items) :
        \/ TimesPlaced(layouts[n], Items[k].id) = 1
        \/ /\ TimesPlaced(layouts[n], Items[k].id) = 0
           /\ ReportedUnplaced(layouts[n], Items[k].id)

\* the stages logged for an instance during the pass that has just ended
StagesOf(id) == SelectSeq(stage_log, LAMBDA e : e.item_id = id)
PassEnded == pc \in {"begin", "respond"} /\ Len(layouts) >= 1

\* C4: every instance goes through primary, general fallback and last resort
\* in this order; a later stage runs exactly when the earlier ones failed, and
\* an instance is left unplaced only after the last resort failed.
C4_StagesInOrder ==
    PassEnded =>
        \A k \in 1..Len(Items) :
            LET log == StagesOf(Items[k].id) IN
            /\ Len(log) \in 1..3
            /\ \A i \in 1..Len(log) :
                  /\ log[i].stage = <<"primary", "general", "last_resort">>[i]
                  /\ (i < Len(log) => ~log[i].placed)
            /\ (~log[Len(log)].placed => Len(log) = 3)

NoWallItems == \A k \in 1..Len(Items) : Category(Items[k]) # "wall"

\* C5: a pass starts from an empty accumulator, no step changes the room
\* analysis or a layout that is already finished, and a strategy gives the
\* same result first or last: without a goal the third pass repeats the
\* optimal strategy, and where no stage has a random choice to make (there is
\* no wall item) its layout is that of the first pass.
C5_StrategiesIndependent ==
    /\ [][pc = "begin" => acc' = EmptyLayout]_vars
    /\ [][analysis # NoAnalysis => analysis' = analysis]_vars
    /\ [][/\ Len(layouts') >= Len(layouts)
          /\ \A n \in 1..Len(layouts) : layouts'[n] = layouts[n]]_vars
    /\ []((Len(layouts) = Passes /\ req_goal = "" /\ NoWallItems) =>
            Content(layouts[3]) = Content(layouts[1]))

\* three finished layouts of a request without goal: the space-conscious
\* pass in the middle produced something else, the third equals the first
C5_Witness ==
    /\ pc = "respond"
    /\ req_goal = ""
    /\ NoWallItems
    /\ layouts[1].furniture_placements # <<>>
    /\ layouts[1].tradeoffs # <<>>
    /\ Content(layouts[2]) # Content(layouts[1])
    /\ Content(layouts[3]) = Content(layouts[1])

Returned == <<response.optimal_layout, response.space_conscious_layout,
              response.life_goal_layout>>

\* C6: a request ends with three layouts (optimal, space_conscious, and
\* life_goal when a goal was requested, else the second optimal pass) or with
\* an error and no layout at all; for a room whose width or length is not
\* positive no analysis or placement step ever runs.
C6_ThreeLayoutsOrError ==
    /\ (response.sent =>
          \/ /\ response.error
             /\ \A n \in 1..3 : Returned[n] = NoLayout
          \/ /\ ~response.error
             /\ \A n \in 1..3 : Returned[n] = layouts[n]
             /\ Returned[1].strategy = "optimal"
             /\ Returned[2].strategy = "space_conscious"
             /\ Returned[3].strategy =
                    (IF req_goal # "" THEN "life_goal" ELSE "variant")
             /\ (req_goal = "" /\ NoWallItems =>
                    Content(Returned[3]) = Content(Returned[1])))
    /\ (pc = "done" => response.sent)
    /\ (InvalidDimensions(req_room) =>
          /\ analysis = NoAnalysis
          /\ pass = 0
          /\ stage_log = <<>>
          /\ layouts = <<>>
          /\ (pc = "done" => response.error))

\* an error raised in a later pass: a layout was already finished, none is
\* returned
C6_Witness ==
    /\ pc = "done"
    /\ response.error
    /\ Len(layouts) >= 1
    /\ layouts[1].furniture_placements # <<>>

SeverityRank(severity) ==
    IF severity = "high" THEN 3 ELSE IF severity = "medium" THEN 2
    ELSE IF severity = "low" THEN 1 ELSE 0
\* the greatest rank among the trade-offs of one item
WorstRank(id, ts) ==
    CHOOSE r \in 0..3 :
        /\ \E i \in 1..Len(ts) : ts[i].item_id = id /\ SeverityRank(ts[i].severity) = r
        /\ \A i \in 1..Len(ts) : ts[i].item_id = id => SeverityRank(ts[i].severity) <= r
\* the number of items whose worst trade-off has the given rank
ItemsAtWorst(layout, rank) ==
    LET ts == layout.tradeoffs
        ids == {ts[i].item_id : i \in 1..Len(ts)}
        Worst(id) == WorstRank(id, ts)
    IN  Cardinality({id \in ids : Worst(id) = rank})

\* C8: the score of a generated layout with a placement is 70 plus the
\* weighted percentages less 8, 4 and 1 per item whose worst trade-off is
\* high, medium and low, clamped to 0..100.
C8_ScoreCountsItems ==
    \A n \in 1..Len(layouts) :
        layouts[n].furniture_placements # <<>> =>
            layouts[n].feng_shui_score =
                ScoreOf(layouts[n].furniture_placements,
                        ItemsAtWorst(layouts[n], 3),
                        ItemsAtWorst(layouts[n], 2),
                        ItemsAtWorst(layouts[n], 1))

-----------------------------------------------------------------------------
(* The room analysis on its own: RoomAnalyzer on rooms of every orientation *)
(* and with more kinds of element lists than the requests above carry.      *)

Orientations == {"N", "E", "S", "W"}
AnalysisDimensions ==
    {[width |-> 1020, length |-> 1320], [width |-> 600, length |-> 600],
     [width |-> 1200, length |-> 120], [width |-> 1020, length |-> 0]}
\* three no-furniture zones: the first and the third overlap, the second
\* lies between them in the order of (x, y)
ZoneA == [element_type |-> "nofurniture", x |-> 0, y |-> 0, width |-> 200, height |-> 200]
ZoneB == [element_type |-> "nofurniture", x |-> 20, y |-> 1000, width |-> 20, height |-> 20]
ZoneC == [element_type |-> "nofurniture", x |-> 100, y |-> 100, width |-> 200, height |-> 200]
\* two no-furniture zones that leave the corner [0, 0.1] x [0, 1.0] free
ZoneD == [element_type |-> "nofurniture", x |-> 2, y |-> 0, width |-> 1018, height |-> 1320]
ZoneE == [element_type |-> "nofurniture", x |-> 0, y |-> 20, width |-> 2, height |-> 1300]
\* a no-furniture zone that, with the one before, leaves that corner and the
\* south end of the room free
ZoneF == [element_type |-> "nofurniture", x |-> 2, y |-> 0, width |-> 1018, height |-> 900]
\* a door in the west wall of a long, narrow room
NarrowDoor == [element_type |-> "door", x |-> 0, y |-> 40, width |-> 40, height |-> 40]
\* more doors: in the east wall with its centre level with Door's, 0.45 and
\* 0.5 below it, one further down the east wall, and a window level with Door
OppositeDoor == [element_type |-> "door", x |-> 980, y |-> 376, width |-> 40, height |-> 200]
NearDoor == [element_type |-> "door", x |-> 980, y |-> 385, width |-> 40, height |-> 200]
FarDoor == [element_type |-> "door", x |-> 980, y |-> 386, width |-> 40, height |-> 200]
ThirdDoor == [element_type |-> "door", x |-> 980, y |-> 1000, width |-> 40, height |-> 200]
OppositeWindow == [element_type |-> "window", x |-> 1012, y |-> 376, width |-> 8, height |-> 200]
DoorLists ==
    {<<Door, OppositeDoor>>, <<Door, NearDoor>>, <<Door, FarDoor>>,
     <<Door, OppositeDoor, ThirdDoor>>, <<Door, OppositeWindow>>}
\* elements that arrive without one of their fields
DoorNoWidth == [element_type |-> "door", x |-> 0, y |-> 800, width |-> Null, height |-> 200]
WindowNoY == [element_type |-> "window", x |-> 200, y |-> Null, width |-> 400, height |-> 8]
ZoneNoHeight == [element_type |-> "nofurniture", x |-> 400, y |-> 400, width |-> 200, height |-> Null]
AnalysisElementLists ==
    ElementLists
    \cup {<<NarrowDoor>>}
    \cup {<<Door, DoorNoWidth>>, <<Door, WindowNoY>>, <<Door, ZoneNoHeight, ZoneA>>}
    \cup DoorLists
    \cup {<<ZoneA, ZoneC>>, <<ZoneC, ZoneA>>, <<ZoneA, ZoneB, ZoneC>>,
          <<Door, ZoneA, ZoneB>>, <<ZoneD>>, <<ZoneD, ZoneE>>}
    \cup {<<Window, OppositeWindow>>, <<ZoneE, ZoneF, ZoneB>>}
AnalysisRooms ==
    {[dimensions |-> d, orientation |-> o, elements |-> e] :
        d \in AnalysisDimensions, o \in Orientations, e \in AnalysisElementLists}

InitAnalysis ==
    /\ req_room \in AnalysisRooms
    /\ req_items = <<>>
    /\ req_goal = ""
    /\ pc = "start"
    /\ analysis = NoAnalysis
    /\ pass = 0
    /\ acc = EmptyLayout
    /\ idx = 0
    /\ stage = "none"
    /\ layouts = <<>>
    /\ response = NoResponse
    /\ stage_log = <<>>
    /\ occupant = NoOccupant
    /\ kua = 0
    /\ grp = None
    /\ score_in = EmptyLayout
    /\ score_out = NoScores

NextAnalysis ==
    \/ RejectRoom
    \/ AnalyzeRoom

SpecAnalysis == InitAnalysis /\ [][NextAnalysis]_vars

-----------------------------------------------------------------------------
(* Properties of the room analysis, checked under SpecAnalysis *)

Analysed == analysis # NoAnalysis
NineNames == {"career", "knowledge", "family", "wealth", "fame",
              "relationships", "children", "helpful_people", "center"}
\* the cell of the 3 x 3 grid, 0..8 row by row, that a zone rectangle is
CellOf(zone) ==
    LET third_width == analysis.dimensions.width \div 3
        third_length == analysis.dimensions.length \div 3
    IN  3 * (zone.y \div third_length) + (zone.x \div third_width)
IsCell(zone) ==
    LET third_width == analysis.dimensions.width \div 3
        third_length == analysis.dimensions.length \div 3
    IN  /\ zone.width = third_width
        /\ zone.height = third_length
        /\ \E c \in 0..2 : zone.x = c * third_width
        /\ \E r \in 0..2 : zone.y = r * third_length

\* C11: for each orientation the bagua map has exactly the nine fixed zone
\* names, each on a cell of the 3 x 3 grid of its own, so the zones tile the
\* room.
C11_NineZonesTile ==
    Analysed =>
        LET map == analysis.bagua_map IN
        /\ DOMAIN map = NineNames
        /\ \A name \in DOMAIN map : IsCell(map[name])
        /\ \A a, b \in DOMAIN map : a # b => CellOf(map[a]) # CellOf(map[b])
        /\ {CellOf(map[name]) : name \in DOMAIN map} = 0..8

\* the eight ring cells clockwise from the top left corner
Ring == <<0, 1, 2, 5, 8, 7, 6, 3>>
RingPosition(cell) == CHOOSE i \in 1..8 : Ring[i] = cell
QuarterTurns(orientation) ==
    CASE orientation = "N" -> 0
      [] orientation = "E" -> 1
      [] orientation = "S" -> 2
      [] orientation = "W" -> 3
\* map is the North assignment with the ring shifted by shift positions
RotatedNorth(map, shift) ==
    LET north == create_bagua_map(analysis.dimensions.width,
                                  analysis.dimensions.length, "N")
    IN  /\ DOMAIN map = DOMAIN north
        /\ CellOf(map["center"]) = 4
        /\ \A name \in DOMAIN north \ {"center"} :
              /\ CellOf(map[name]) # 4
              /\ RingPosition(CellOf(map[name])) - 1 =
                    (RingPosition(CellOf(north[name])) - 1 + shift) % 8

\* C12: the assignment for E, S and W is the North assignment turned about
\* the centre cell by one, two and three quarter turns: the centre stays and
\* the ring zones keep their cyclic order, shifted by 2, 4 and 6 positions
\* (in one sense of rotation or the other).
C12_RotatedAssignment ==
    Analysed =>
        LET turns == QuarterTurns(analysis.orientation) IN
        \/ RotatedNorth(analysis.bagua_map, 2 * turns)
        \/ RotatedNorth(analysis.bagua_map, 8 - 2 * turns)

\* C13: the merged constraints contain no two constraints of the same kind
\* whose rectangles overlap.
C13_NoSameKindOverlap ==
    Analysed =>
        LET cs == analysis.constraints IN
        \A i, j \in 1..Len(cs) :
            (i < j /\ cs[i].type = cs[j].type) =>
                ~rectangles_overlap(cs[i].x, cs[i].y, cs[i].width, cs[i].height,
                                    cs[j].x, cs[j].y, cs[j].width, cs[j].height)

\* the rectangles that the claim counts as covering the room
Covering ==
    analysis.usable_spaces
    \o SelectSeq(analysis.constraints, LAMBDA c : c.type = "unusable_area")
\* left and top edges of the elementary cells that the rectangles' edges cut
\* the room into
EdgesX ==
    {x \in {0} \cup UNION {{Covering[i].x, Covering[i].x + Covering[i].width} :
                             i \in 1..Len(Covering)} :
        0 <= x /\ x < analysis.dimensions.width}
EdgesY ==
    {y \in {0} \cup UNION {{Covering[i].y, Covering[i].y + Covering[i].height} :
                             i \in 1..Len(Covering)} :
        0 <= y /\ y < analysis.dimensions.length}
Covers(r, x, y) ==
    /\ r.x <= x /\ x + 1 <= r.x + r.width
    /\ r.y <= y /\ y + 1 <= r.y + r.height

\* C14: every point of a valid room lies in a usable space or in an
\* unusable-area constraint.
C14_NoGap ==
    Analysed =>
        \A x \in EdgesX, y \in EdgesY :
            \E i \in 1..Len(Covering) : Covers(Covering[i], x, y)

\* the bearing (dx, dy) is less than 10 degrees from one of the four axis
\* directions, the distance taken on the circle
NearAxis(dx, dy) ==
    \/ Abs(dy) * TanDen < TanNum * Abs(dx)
    \/ Abs(dx) * TanDen < TanNum * Abs(dy)

\* C15: every command position has a bearing from the centre of its door
\* that is at least 10 degrees from 0, 90, 180 and 270 degrees, the angular
\* distance taken on the circle.
C15_NotAlignedWithDoor ==
    Analysed =>
        \A i \in 1..Len(analysis.command_positions) :
            LET p == analysis.command_positions[i]
                door == p.door_id
            IN  ~NearAxis(p.x - (door.x + door.width \div 2),
                          p.y - (door.y + door.height \div 2))

\* the request without the elements that lack a geometry field
WellFormedOnly(data) ==
    [data EXCEPT !.elements = SelectSeq(@, LAMBDA e : ~MissingGeometry(e))]

\* C17: an element that lacks x, y, width or height is skipped by every
\* analysis step: a room of valid dimensions is always analysed (the request
\* is never answered with an error because of such an element), and the
\* constraints, command positions, entry points, flow paths and issues are
\* those of the room without the malformed elements.
C17_MalformedSkipped ==
    /\ pc = "done" => InvalidDimensions(req_room)
    /\ pc = "begin" =>
          LET expected == analyze_room(WellFormedOnly(req_room))
          IN  /\ analysis.constraints = expected.constraints
              /\ analysis.usable_spaces = expected.usable_spaces
              /\ analysis.command_positions = expected.command_positions
              /\ analysis.energy_flow = expected.energy_flow

\* the doors of the room and their centres
DoorsOf(data) == SelectSeq(data.elements, LAMBDA e : e.element_type = "door")
CentreX(e) == e.x + e.width \div 2
CentreY(e) == e.y + e.height \div 2
DoorAlignments ==
    SelectSeq(analysis.energy_flow.energy_issues, LAMBDA i : i.type = "door_alignment")
\* the pairs of doors i < j whose centres are less than 0.5 apart in x or in y
AlignedPairs ==
    LET doors == DoorsOf(req_room)
    IN  {p \in (1..Len(doors)) \X (1..Len(doors)) :
            /\ p[1] < p[2]
            /\ \/ Abs(CentreX(doors[p[1]]) - CentreX(doors[p[2]])) < DoorsAligned
               \/ Abs(CentreY(doors[p[1]]) - CentreY(doors[p[2]])) < DoorsAligned}

\* C19: the energy analysis reports exactly one door_alignment issue, of
\* high severity, for each unordered pair of doors whose centres are less
\* than 0.5 apart in x or in y, and no other door_alignment issue.
C19_OneIssuePerAlignedPair ==
    Analysed =>
        LET doors == DoorsOf(req_room)
            Reports(p) == {k \in 1..Len(DoorAlignments) :
                             /\ DoorAlignments[k].x1 = CentreX(doors[p[1]])
                             /\ DoorAlignments[k].y1 = CentreY(doors[p[1]])
                             /\ DoorAlignments[k].x2 = CentreX(doors[p[2]])
                             /\ DoorAlignments[k].y2 = CentreY(doors[p[2]])}
        IN  /\ Len(DoorAlignments) = Cardinality(AlignedPairs)
            /\ \A p \in AlignedPairs : Cardinality(Reports(p)) = 1
            /\ \A k \in 1..Len(DoorAlignments) :
                  /\ DoorAlignments[k].severity = "high"
                  /\ \E p \in AlignedPairs : k \in Reports(p)

\* two doors level with each other in opposite walls, reported once
C19_Witness ==
    /\ Analysed
    /\ req_room.elements = <<Door, OppositeDoor>>
    /\ Len(DoorAlignments) = 1

-----------------------------------------------------------------------------
(* Further properties of the layouts, checked under Spec *)

Windows == SelectSeq(analysis.elements, LAMBDA e : e.element_type = "window")
IsBed(place) == get_furniture_type(place.base_id) = "bed"

\* C16: in no finished layout does the rectangle of a bed overlap the
\* rectangle of a window, whichever stage placed the bed.
C16_NoBedOverWindow ==
    \A n \in 1..Len(layouts) :
        LET ps == layouts[n].furniture_placements IN
        \A i \in 1..Len(ps) : \A w \in 1..Len(Windows) :
            IsBed(ps[i]) => ~Overlapping(ps[i], Windows[w])

-----------------------------------------------------------------------------
(* engine.py: FengShuiEngine.modify_layout, examined on its own.  The engine
   holds the analysis of a room with the door and the window and the layouts
   of a request for two twin beds as generate_layouts stored them (the
   optimal and the space-conscious one); a user
   edits them any number of times. *)

MaxMods == 2

BedAt(n, x, y, command) ==
    [x |-> x, y |-> y, width |-> 160, height |-> 160, rotation |-> 0,
     item_id |-> <<"twin_bed", n>>, base_id |-> "twin_bed",
     in_command_position |-> command, against_wall |-> FALSE,
     feng_shui_quality |-> "good"]

\* self.layouts after generate_layouts: the layouts with the ids given them
StoredLayouts ==
    << [id |-> "optimal_1000", strategy |-> "optimal",
        furniture_placements |-> <<BedAt(0, 246, 792, TRUE)>>,
        tradeoffs |-> <<Tradeoff(<<"twin_bed", 0>>, "no_wall_behind", "medium")>>,
        feng_shui_score |-> 91],
       [id |-> "space_1000", strategy |-> "space_conscious",
        furniture_placements |->
            <<BedAt(0, 246, 792, TRUE), BedAt(1, 0, 0, FALSE)>>,
        tradeoffs |->
            <<Tradeoff(<<"twin_bed", 0>>, "no_wall_behind", "medium"),
              Tradeoff(<<"twin_bed", 1>>, "suboptimal_placement", "low"),
              Tradeoff(<<"twin_bed", 1>>, "bed_under_window", "high")>>,
        feng_shui_score |-> 74] >>

\* the entries of modifications["furniture_placements"]: a new position or a
\* new flag for an item of the layout or for an item it does not hold
Mods ==
    {[item_id |-> <<"twin_bed", n>>, x |-> x, y |-> 0] :
        n \in {0, 1}, x \in {0, 100, 600}}
    \cup {[item_id |-> <<"twin_bed", 0>>, in_command_position |-> FALSE],
          [item_id |-> <<"desk", 0>>, x |-> 0, y |-> 0]}
Modifications == SeqsUpTo(Mods, MaxMods)

\* the loop over one mod's keys
UpdatePlacement(place, mod) ==
    [key \in DOMAIN place |->
        IF key \in DOMAIN mod /\ key # "item_id" THEN mod[key] ELSE place[key]]

\* the loop over the mods: the first placement of the item is updated
RECURSIVE ProcessMods(_, _)
ProcessMods(furniture_placements, mods) ==
    IF mods = <<>> THEN furniture_placements
    ELSE LET found == {i \in 1..Len(furniture_placements) :
                          furniture_placements[i].item_id = Head(mods).item_id}
             item_index == CHOOSE i \in found : \A j \in found : i <= j
         IN  ProcessMods(
                 IF found = {} THEN furniture_placements
                 ELSE [furniture_placements EXCEPT
                           ![item_index] = UpdatePlacement(@, Head(mods))],
                 Tail(mods))

\* the trade-offs item number i gets: one furniture_overlap for each other
\* placement it overlaps, then the bad placements
RECURSIVE OverlapsFrom(_, _, _)
OverlapsFrom(furniture_placements, i, j) ==
    IF j > Len(furniture_placements) THEN <<>>
    ELSE (IF i # j /\ rectangles_overlap(
                 furniture_placements[i].x, furniture_placements[i].y,
                 furniture_placements[i].width, furniture_placements[i].height,
                 furniture_placements[j].x, furniture_placements[j].y,
                 furniture_placements[j].width, furniture_placements[j].height)
          THEN <<Tradeoff(furniture_placements[i].item_id,
                          "furniture_overlap", "high")>>
          ELSE <<>>)
         \o OverlapsFrom(furniture_placements, i, j + 1)

RECURSIVE ValidateFrom(_, _, _)
ValidateFrom(furniture_placements, elements, i) ==
    IF i > Len(furniture_placements) THEN <<>>
    ELSE OverlapsFrom(furniture_placements, i, 1)
         \o check_for_bad_placements(
                [id |-> furniture_placements[i].item_id,
                 base_id |-> furniture_placements[i].base_id],
                furniture_placements[i], elements)
         \o ValidateFrom(furniture_placements, elements, i + 1)

\* a validation that leaves the trade-offs as they were stored
KeepTradeoffs(layout, elements) == layout

validate_modified_layout(layout, elements) ==
    [layout EXCEPT !.tradeoffs =
        ValidateFrom(layout.furniture_placements, elements, 1)]

modify_layout(layout, modifications, elements) ==
    LET edited == [layout EXCEPT !.furniture_placements =
                       ProcessMods(@, modifications)]
        validated == validate_modified_layout(edited, elements)
    IN  [validated EXCEPT !.feng_shui_score = EngineScore(validated)]

ModifyRoom == [dimensions |-> [width |-> 1020, length |-> 1320], orientation |-> "N", elements |-> <<Door, Window>>]

InitModify ==
    /\ req_room = NoRequest
    /\ req_items = <<>>
    /\ req_goal = ""
    /\ analysis = analyze_room(ModifyRoom)
    /\ pass = 0
    /\ acc = EmptyLayout
    /\ idx = 0
    /\ stage = "none"
    /\ layouts = StoredLayouts
    /\ response = NoResponse
    /\ stage_log = <<>>
    /\ occupant = NoOccupant
    /\ kua = 0
    /\ grp = None
    /\ score_in = NoScores
    /\ score_out = NoScores
    /\ pc = "stored"

\* modify_layout(layout_id, modifications) for a layout_id in self.layouts
ModifyLayout ==
    /\ pc = "stored"
    /\ \E n \in 1..Len(layouts), modifications \in Modifications :
          layouts' = [layouts EXCEPT
                         ![n] = modify_layout(@, modifications, analysis.elements)]
    /\ UNCHANGED <<Request, analysis, pass, acc, idx, stage, response, stage_log,
                   pc, Idle>>

NextModify == ModifyLayout

SpecModify == InitModify /\ [][NextModify]_vars

\* placement number i of the layout overlaps another placement of it
OverlapsAnother(layout, i) ==
    \E j \in 1..Len(layout.furniture_placements) :
        j # i /\ Overlapping(layout.furniture_placements[i],
                             layout.furniture_placements[j])

\* the trade-offs of the layout are those of a check of its placements, and
\* its score that of its placements and trade-offs
FreshlyChecked(layout, elements) ==
    LET ps == layout.furniture_placements
        ts == layout.tradeoffs
    IN  /\ \A i \in 1..Len(ps) :
              /\ OverlapsAnother(layout, i) <=>
                    \E t \in 1..Len(ts) : /\ ts[t].item_id = ps[i].item_id
                                          /\ ts[t].issue = "furniture_overlap"
              /\ SelectSeq(ts, LAMBDA t : /\ t.item_id = ps[i].item_id
                                          /\ t.issue # "furniture_overlap")
                 = check_for_bad_placements(
                       [id |-> ps[i].item_id, base_id |-> ps[i].base_id],
                       ps[i], elements)
        /\ \A t \in 1..Len(ts) :
              /\ \E i \in 1..Len(ps) : ps[i].item_id = ts[t].item_id
              /\ ts[t].issue = "furniture_overlap" => ts[t].severity = "high"
        /\ layout.feng_shui_score = EngineScore(layout)

\* C18: a modification leaves the id and the strategy of every stored layout
\* as they were, and the layout it changed has the trade-offs of a fresh
\* check of its edited placements (a high furniture_overlap entry exactly for
\* the placements that overlap another, and the bad placements of each) and
\* the score computed from these placements and trade-offs.
C18_ModifyRevalidates ==
    [][\A n \in 1..Len(layouts) :
          /\ layouts'[n].id = layouts[n].id
          /\ layouts'[n].strategy = layouts[n].strategy
          /\ layouts'[n] # layouts[n] =>
                FreshlyChecked(layouts'[n], analysis.elements)]_vars

\* a layout edited so that its two beds overlap, the overlap reported for both
C18_Witness ==
    /\ pc = "stored"
    /\ Len(layouts) = 2
    /\ OverlapsAnother(layouts[2], 1)
    /\ \E t \in 1..Len(layouts[2].tradeoffs) :
          layouts[2].tradeoffs[t] =
              Tradeoff(<<"twin_bed", 0>>, "furniture_overlap", "high")
    /\ layouts[2].furniture_placements # StoredLayouts[2].furniture_placements

-----------------------------------------------------------------------------
(* The life goal and the strategies, checked under Spec *)

\* what place_small_item gives for the item in turn when no goal is requested
SmallItemWithoutGoal ==
    place_small_item(Items[idx], acc, Strategy(pass, req_goal),
                     analysis.bagua_map, analysis.energy_flow, analysis.elements,
                     analysis.dimensions.width, analysis.dimensions.length, "")

\* C20: under the optimal and the space_conscious strategy the target zones
\* of a small item, and with them the placement the small-item stage makes,
\* are those of the same request without a life goal; only the life_goal
\* strategy puts the goal's zones first.
C20_GoalOnlyUnderLifeGoal ==
    [][(AtStage("small", "primary") /\ Strategy(pass, req_goal) # "life_goal") =>
          /\ determine_target_bagua_areas(Items[idx], Strategy(pass, req_goal), req_goal)
             = determine_target_bagua_areas(Items[idx], Strategy(pass, req_goal), "")
          /\ \E o \in {SmallItemWithoutGoal} :
                acc'.furniture_placements =
                    IF o.placement # NoPlacement
                    THEN Append(acc.furniture_placements, o.placement)
                    ELSE acc.furniture_placements]_vars

-----------------------------------------------------------------------------
(* Energy flow and the large items, checked under Spec *)

\* twice the signed area of the triangle a, b, c
Turn(ax, ay, bx, by, cx, cy) == (bx - ax) * (cy - ay) - (by - ay) * (cx - ax)

\* the segments a b and c d cross at a point inside both
SegmentsCross(ax, ay, bx, by, cx, cy, dx, dy) ==
    LET d1 == Turn(cx, cy, dx, dy, ax, ay)
        d2 == Turn(cx, cy, dx, dy, bx, by)
        d3 == Turn(ax, ay, bx, by, cx, cy)
        d4 == Turn(ax, ay, bx, by, dx, dy)
    IN  /\ (d1 > 0 /\ d2 < 0) \/ (d1 < 0 /\ d2 > 0)
        /\ (d3 > 0 /\ d4 < 0) \/ (d3 < 0 /\ d4 > 0)

\* the point is within d of the rectangle
PointNearRect(px, py, r, d) ==
    LET dx == Max(Max(r.x - px, px - (r.x + r.width)), 0)
        dy == Max(Max(r.y - py, py - (r.y + r.height)), 0)
    IN  dx * dx + dy * dy <= d * d

\* the rectangle meets the flow path: the segment from the entry point to the
\* room centre with everything within half the line thickness of it
MeetsPath(r, path) ==
    LET half == LineThickness \div 2
        corners == << <<r.x, r.y>>, <<r.x + r.width, r.y>>,
                      <<r.x + r.width, r.y + r.height>>, <<r.x, r.y + r.height>> >>
    IN  \/ PointNearRect(path.start_x, path.start_y, r, half)
        \/ PointNearRect(path.end_x, path.end_y, r, half)
        \/ \E c \in 1..4 :
              \/ point_to_line_distance(corners[c][1], corners[c][2],
                     path.start_x, path.start_y, path.end_x, path.end_y, half) <= 0
              \/ SegmentsCross(path.start_x, path.start_y, path.end_x, path.end_y,
                     corners[c][1], corners[c][2],
                     corners[(c % 4) + 1][1], corners[(c % 4) + 1][2])

BlocksFlow(place) ==
    \E k \in 1..Len(analysis.energy_flow.flow_paths) :
        MeetsPath(place, analysis.energy_flow.flow_paths[k])

IsLarge(place) ==
    \E i \in 1..Len(Items) : Items[i].id = place.item_id /\ Category(Items[i]) = "large"

\* C21: in the layout of the optimal strategy no placement of a large item
\* meets an energy flow path; in the layouts of the other strategies a large
\* item that does carries a low blocks_energy_flow trade-off.
C21_OptimalKeepsFlowClear ==
    \A n \in 1..Len(layouts) :
        LET ps == layouts[n].furniture_placements
            ts == layouts[n].tradeoffs
        IN  \A i \in 1..Len(ps) :
                (IsLarge(ps[i]) /\ BlocksFlow(ps[i])) =>
                    /\ Strategy(n, req_goal) # "optimal"
                    /\ \E t \in 1..Len(ts) :
                          ts[t] = Tradeoff(ps[i].item_id, "blocks_energy_flow", "low")

-----------------------------------------------------------------------------
(* The bad placements of a finished layout, checked under Spec *)

Doors == SelectSeq(analysis.elements, LAMBDA e : e.element_type = "door")

\* the door's rectangle extended by the clearance on each side
ClearanceZone(door) ==
    [x |-> door.x - DoorClearance, y |-> door.y - DoorClearance,
     width |-> door.width + 2 * DoorClearance,
     height |-> door.height + 2 * DoorClearance]

IsDesk(place) == get_furniture_type(place.base_id) = "desk"

\* the layout reports the issue, with the severity, for the placed item
Reported(layout, place, issue, severity) ==
    \E t \in 1..Len(layout.tradeoffs) :
        layout.tradeoffs[t] = Tradeoff(place.item_id, issue, severity)

\* C22: in every finished layout, whichever stage made the placement, a bed
\* over a window is reported with a high trade-off, a placement in the
\* clearance zone of a door with a medium trade-off, and a desk that is not
\* in command position with a medium trade-off.
C22_BadPlacementsReported ==
    \A n \in 1..Len(layouts) :
        LET ps == layouts[n].furniture_placements IN
        \A i \in 1..Len(ps) :
            /\ (IsBed(ps[i]) /\ \E w \in 1..Len(Windows) : Overlapping(ps[i], Windows[w]))
                  => Reported(layouts[n], ps[i], "bed_under_window", "high")
            /\ (\E d \in 1..Len(Doors) : Overlapping(ps[i], ClearanceZone(Doors[d])))
                  => Reported(layouts[n], ps[i], "blocks_door", "medium")
            /\ (IsDesk(ps[i]) /\ ~ps[i].in_command_position)
                  => Reported(layouts[n], ps[i], "desk_not_command", "medium")

\* C28: in every finished layout no item that has a placement also has an
\* unable_to_place trade-off.
C28_PlacedNotReportedUnplaced ==
    \A n \in 1..Len(layouts) :
        \A i \in 1..Len(layouts[n].furniture_placements) :
            ~ReportedUnplaced(layouts[n], layouts[n].furniture_placements[i].item_id)

-----------------------------------------------------------------------------
(* The constraints and the walls of the room, checked under Spec *)

UnusableAreas ==
    SelectSeq(analysis.constraints, LAMBDA c : c.type = "unusable_area")

\* C23: no placement of a generated layout overlaps an unusable-area
\* constraint of the room analysis.
C23_OffUnusableAreas ==
    \A n \in 1..Len(layouts) :
        LET ps == layouts[n].furniture_placements IN
        \A i \in 1..Len(ps) : \A c \in 1..Len(UnusableAreas) :
            ~Overlapping(ps[i], UnusableAreas[c])

\* the wall elements of the room
RoomWalls == SelectSeq(analysis.elements, LAMBDA e : e.element_type = "wall")

\* the positions along the wall elements, for the item upright or turned
AlongRoomWalls(item) ==
    LET processed_walls ==
            process_walls(RoomWalls, analysis.dimensions.width,
                          analysis.dimensions.length)
    IN  Range(generate_wall_positions(processed_walls, item))
        \cup Range(generate_rotated_wall_positions(processed_walls, item))

\* C24: in a room with at least one wall element the placement the wall
\* strategy makes is at one of the candidate positions along the wall
\* elements; the virtual boundary walls serve only a room without wall
\* elements.
C24_AlongWallElements ==
    [][(AtStage("wall", "primary") /\ RoomWalls # <<>>
        /\ Len(acc'.furniture_placements) > Len(acc.furniture_placements)) =>
          LET place == acc'.furniture_placements[Len(acc'.furniture_placements)]
          IN  \E pos \in AlongRoomWalls(Items[idx]) :
                  /\ pos.x = place.x
                  /\ pos.y = place.y
                  /\ pos.rotation = place.rotation]_vars


-----------------------------------------------------------------------------
(* The quality of the usable spaces, checked under SpecAnalysis *)

\* the traffic-flow constraints that overlap a usable space
TrafficOver(space) ==
    {c \in 1..Len(analysis.constraints) :
        /\ analysis.constraints[c].type = "traffic_flow"
        /\ rectangles_overlap(space.x, space.y, space.width, space.height,
                              analysis.constraints[c].x, analysis.constraints[c].y,
                              analysis.constraints[c].width,
                              analysis.constraints[c].height)}

\* C25: the quality of a usable space is the quality of its area, one level
\* lower when the space overlaps at least one traffic-flow constraint however
\* many it overlaps, and unchanged when it overlaps none.
C25_OneLevelForTraffic ==
    Analysed =>
        \A s \in 1..Len(analysis.usable_spaces) :
            LET space == analysis.usable_spaces[s] IN
            space.quality = IF TrafficOver(space) = {}
                            THEN SizeQuality(space.area)
                            ELSE Downgrade(SizeQuality(space.area))


-----------------------------------------------------------------------------
(* The command strategy, checked under Spec *)

\* the command positions that apply to the item's kind, all of them when
\* none applies
Applicable(item) ==
    LET own == SelectSeq(analysis.command_positions, LAMBDA p :
                   get_furniture_type(item.base_id) \in {"bed", "desk"})
    IN  IF own = <<>> THEN analysis.command_positions ELSE own

\* the item centred on the position
CentredOn(p, item) ==
    [x |-> p.x - item.width \div 2, y |-> p.y - item.height \div 2,
     width |-> item.width, height |-> item.height]

\* the centred rectangle overlaps no placement of the list and, for a bed,
\* no window
Fits(p, item, placements) ==
    /\ \A i \in 1..Len(placements) : ~Overlapping(CentredOn(p, item), placements[i])
    /\ IsBed(item) =>
           \A w \in 1..Len(Windows) : ~Overlapping(CentredOn(p, item), Windows[w])

\* position i comes before position j in descending (quality, wall behind)
Before(s, i, j) ==
    LET Rank(p) == <<QualityValue(p.quality), IF p.has_wall_behind THEN 1 ELSE 0>>
    IN  \/ Rank(s[i])[1] > Rank(s[j])[1]
        \/ Rank(s[i])[1] = Rank(s[j])[1] /\ Rank(s[i])[2] > Rank(s[j])[2]
        \/ Rank(s[i]) = Rank(s[j]) /\ i < j

\* the placement is the item centred on the first fitting position of the order
FirstFitting(place, item, placements) ==
    \E i \in 1..Len(Applicable(item)) :
        /\ Fits(Applicable(item)[i], item, placements)
        /\ \A j \in 1..Len(Applicable(item)) :
               Before(Applicable(item), j, i) => ~Fits(Applicable(item)[j], item, placements)
        /\ place.x = CentredOn(Applicable(item)[i], item).x
        /\ place.y = CentredOn(Applicable(item)[i], item).y
        /\ place.width = item.width /\ place.height = item.height
        /\ place.in_command_position

\* C26: the command strategy puts the item, centred, on the first position in
\* descending (quality, wall behind) order that overlaps no placed item and,
\* for a bed, no window, with in_command_position true; it places nothing
\* when no position fits.
C26_FirstFittingCommandPosition ==
    [][(AtStage("command", "primary") /\ pc' = "placing") =>
          LET item == Items[idx]
              before == acc.furniture_placements
              after == acc'.furniture_placements
          IN  IF \E i \in 1..Len(Applicable(item)) : Fits(Applicable(item)[i], item, before)
              THEN /\ Len(after) = Len(before) + 1
                   /\ FirstFitting(after[Len(after)], item, before)
              ELSE after = before]_vars

\* a command item has just been put on a position that is not the first of
\* the order, the earlier ones being taken
C26_Witness ==
    /\ pc = "placing" /\ idx > 1 /\ stage = "primary" /\ stage_log # <<>>
    /\ Category(Items[idx - 1]) = "command"
    /\ stage_log[Len(stage_log)] =
           [item_id |-> Items[idx - 1].id, stage |-> "primary", placed |-> TRUE]
    /\ LET item == Items[idx - 1]
           n == Len(acc.furniture_placements)
           before == SubSeq(acc.furniture_placements, 1, n - 1)
       IN  /\ FirstFitting(acc.furniture_placements[n], item, before)
           /\ \E j \in 1..Len(Applicable(item)) : ~Fits(Applicable(item)[j], item, before)


-----------------------------------------------------------------------------
(* The order of the categories, checked under Spec *)

CategoryRank(category) ==
    CASE category = "command" -> 1
      [] category = "wall" -> 2
      [] category = "large" -> 3
      [] OTHER -> 4

\* the items of the request, in the order of the request
Requested == extract_furniture_items(req_items)
RankOfId(item_id) ==
    LET i == CHOOSE k \in 1..Len(Requested) : Requested[k].id = item_id
    IN  CategoryRank(Category(Requested[i]))
InCategoryOrder(placements) ==
    \A i, j \in 1..Len(placements) :
        i < j => RankOfId(placements[i].item_id) <= RankOfId(placements[j].item_id)

\* C27: the attempts of a pass go by category (command, wall, large, small):
\* when an item is attempted every item of an earlier category has had all
\* its attempts; so in furniture_placements the command items come before
\* the wall items, these before the large items, these before the small.
C27_CategoryOrder ==
    /\ \A j \in 1..Len(stage_log) :
          /\ \A i \in 1..(j - 1) :
                RankOfId(stage_log[i].item_id) <= RankOfId(stage_log[j].item_id)
          /\ \A k \in 1..Len(Requested) :
                CategoryRank(Category(Requested[k])) < RankOfId(stage_log[j].item_id)
                    => \E i \in 1..(j - 1) : stage_log[i].item_id = Requested[k].id
    /\ InCategoryOrder(acc.furniture_placements)
    /\ \A n \in 1..Len(layouts) : InCategoryOrder(layouts[n].furniture_placements)

\* a finished layout with items of three categories whose order differs from
\* the order of the request
C27_Witness ==
    \E n \in 1..Len(layouts) :
        LET ps == layouts[n].furniture_placements IN
        /\ Cardinality({RankOfId(ps[i].item_id) : i \in 1..Len(ps)}) >= 3
        /\ \E i, j \in 1..Len(Requested) :
              i < j /\ CategoryRank(Category(Requested[i]))
                         > CategoryRank(Category(Requested[j]))


-----------------------------------------------------------------------------
(* modify_layout without modifications and twice over, checked under       *)
(* SpecModify                                                               *)

\* C29: modify_layout with an empty list of modifications leaves the
\* placements, the trade-offs and the score of a stored layout as they were,
\* and modify_layout twice with the same modifications gives what one call
\* gives.
C29_EmptyModificationKeepsContent ==
    [][\A n \in 1..Len(layouts) :
          /\ layouts' = [layouts EXCEPT
                            ![n] = modify_layout(@, <<>>, analysis.elements)]
                => Content(layouts'[n]) = Content(layouts[n])
          /\ \A modifications \in Modifications :
                layouts' = [layouts EXCEPT
                               ![n] = modify_layout(@, modifications, analysis.elements)]
                    => modify_layout(layouts'[n], modifications, analysis.elements)
                           = layouts'[n]]_vars


-----------------------------------------------------------------------------
(* The usable spaces and the unusable areas, checked under SpecAnalysis *)

Reversed(s) == [i \in 1..Len(s) |-> s[Len(s) + 1 - i]]

\* the spaces identify_usable_spaces returns for the constraints of the
\* analysis, taken in their order and in the opposite order
SpacesReturned ==
    {identify_usable_spaces(analysis.dimensions.width, analysis.dimensions.length, cs) :
        cs \in {analysis.constraints, Reversed(analysis.constraints)}}

\* C30: no usable space returned overlaps an unusable-area constraint, in
\* whichever order the constraints are taken, and every returned space has
\* an area of at least 0.5.
C30_SpacesClearOfUnusableAreas ==
    Analysed =>
        \A spaces \in SpacesReturned : \A s \in 1..Len(spaces) :
            /\ \A c \in 1..Len(UnusableAreas) : ~Overlapping(spaces[s], UnusableAreas[c])
            /\ spaces[s].width * spaces[s].height >= AreaUseful

\* two unusable areas, spaces split around both of them, and a piece too
\* small to be returned
C30_Witness ==
    /\ Analysed
    /\ Len(UnusableAreas) >= 2
    /\ Len(analysis.usable_spaces) >= 3
    /\ Len(RemoveUnusable(<<NewSpace(0, 0, analysis.dimensions.width,
                                     analysis.dimensions.length)>>,
                          analysis.constraints)) > Len(analysis.usable_spaces)

=============================================================================
